---- MODULE Spec2Model ----
(***************************************************************************)
(* AgenteAcessibilidade (src/accessibility_agent.py): the evaluation of a  *)
(* web page against the accessibility rules, and the report built from the *)
(* findings.  The agent's fields (url, problemas, soup) are shared state;  *)
(* a call of avaliar_website is a sequence of steps (reset, fetch, parse,  *)
(* the twelve rules, report assembly).  Python lists are objects: the      *)
(* field problemas and a report's problemas are references into a heap.    *)
(* Accented letters of the source's string literals are written without    *)
(* the accent.                                                             *)
(***************************************************************************)
EXTENDS Integers, Sequences, FiniteSets, TLC

VARIABLES url, problemas, soup, heap, pc, regra, resposta, relatorio,
          desfecho, executadas, emitidos, anterior, pagina, saida

vars == <<url, problemas, soup, heap, pc, regra, resposta, relatorio,
          desfecho, executadas, emitidos, anterior, pagina, saida>>

\* ------------------------------------------------------------------ bounds

\* The largest number of times a document repeats its block of markup.
MaxCopias == 5

\* ------------------------------------------------------------------ enums

\* class NivelConformidade
NivelConformidade == {"A", "AA", "AAA"}

\* class SeveridadeProblema (the member names)
SeveridadeProblema == {"CRITICO", "GRAVE", "MODERADO", "LEVE"}

\* SeveridadeProblema.<member>.value, the keys of problemas_por_severidade
ValorSeveridade(s) ==
    CASE s = "CRITICO" -> "Critico"
      [] s = "GRAVE" -> "Grave"
      [] s = "MODERADO" -> "Moderado"
      [] s = "LEVE" -> "Leve"

\* ---------------------------------------------------------------- strings
\* A Python str is a TLA+ string in the state; the string operations work on
\* its characters, Chars(s), a sequence of one-character strings.

\* The characters of each string the model uses.
Chars(s) ==
    CASE s = "" -> <<>>
      [] s = "x.png" -> <<"x", ".", "p", "n", "g">>
      [] s = "foto.jpg" -> <<"f", "o", "t", "o", ".", "j", "p", "g">>
      [] s = "seta.png" -> <<"s", "e", "t", "a", ".", "p", "n", "g">>
      [] s = " " -> <<" ">>
      [] s = "nav-Icon" -> <<"n", "a", "v", "-", "I", "c", "o", "n">>
      [] s = "logo.png" -> <<"l", "o", "g", "o", ".", "p", "n", "g">>
      [] s = "Logotipo" -> <<"L", "o", "g", "o", "t", "i", "p", "o">>
      [] s = "banner.png" -> <<"b", "a", "n", "n", "e", "r", ".", "p", "n", "g">>
      [] s = "/" -> <<"/">>
      [] s = "home.png" -> <<"h", "o", "m", "e", ".", "p", "n", "g">>
      [] s = "image" -> <<"i", "m", "a", "g", "e">>
      [] s = "ok.png" -> <<"o", "k", ".", "p", "n", "g">>
      [] s = "color: red; background-color: blue" -> <<"c", "o", "l", "o", "r", ":", " ", "r", "e", "d", ";", " ", "b", "a", "c", "k", "g", "r", "o", "u", "n", "d", "-", "c", "o", "l", "o", "r", ":", " ", "b", "l", "u", "e">>
      [] s = "background-color: blue" -> <<"b", "a", "c", "k", "g", "r", "o", "u", "n", "d", "-", "c", "o", "l", "o", "r", ":", " ", "b", "l", "u", "e">>
      [] s = "color: red" -> <<"c", "o", "l", "o", "r", ":", " ", "r", "e", "d">>
      [] s = "abrir()" -> <<"a", "b", "r", "i", "r", "(", ")">>
      [] s = "button" -> <<"b", "u", "t", "t", "o", "n">>
      [] s = "0" -> <<"0">>
      [] s = "text" -> <<"t", "e", "x", "t">>
      [] s = "q" -> <<"q">>
      [] s = "nome" -> <<"n", "o", "m", "e">>
      [] s = "cidade" -> <<"c", "i", "d", "a", "d", "e">>
      [] s = "hidden" -> <<"h", "i", "d", "d", "e", "n">>
      [] s = "token" -> <<"t", "o", "k", "e", "n">>
      [] s = "v.mp4" -> <<"v", ".", "m", "p", "4">>
      [] s = "autoplay" -> <<"a", "u", "t", "o", "p", "l", "a", "y">>
      [] s = "w.mp4" -> <<"w", ".", "m", "p", "4">>
      [] s = "captions" -> <<"c", "a", "p", "t", "i", "o", "n", "s">>
      [] s = "w.vtt" -> <<"w", ".", "v", "t", "t">>
      [] s = "a.mp3" -> <<"a", ".", "m", "p", "3">>
      [] s = "true" -> <<"t", "r", "u", "e">>
      [] s = "/x" -> <<"/", "x">>
      [] s = "/servicos" -> <<"/", "s", "e", "r", "v", "i", "c", "o", "s">>
      [] s = "/sobre" -> <<"/", "s", "o", "b", "r", "e">>
      [] s = "/manual" -> <<"/", "m", "a", "n", "u", "a", "l">>
      [] s = "_blank" -> <<"_", "b", "l", "a", "n", "k">>
      [] s = "/guia" -> <<"/", "g", "u", "i", "a">>
      [] s = "col" -> <<"c", "o", "l">>
      [] s = "titulo-secao" -> <<"t", "i", "t", "u", "l", "o", "-", "s", "e", "c", "a", "o">>
      [] s = "foo" -> <<"f", "o", "o">>
      [] s = "viewport" -> <<"v", "i", "e", "w", "p", "o", "r", "t">>
      [] s = "width=device-width, user-scalable=no" -> <<"w", "i", "d", "t", "h", "=", "d", "e", "v", "i", "c", "e", "-", "w", "i", "d", "t", "h", ",", " ", "u", "s", "e", "r", "-", "s", "c", "a", "l", "a", "b", "l", "e", "=", "n", "o">>
      [] s = "width=device-width, initial-scale=1.0, maximum-scale=1.0, user-scalable=no" -> <<"w", "i", "d", "t", "h", "=", "d", "e", "v", "i", "c", "e", "-", "w", "i", "d", "t", "h", ",", " ", "i", "n", "i", "t", "i", "a", "l", "-", "s", "c", "a", "l", "e", "=", "1", ".", "0", ",", " ", "m", "a", "x", "i", "m", "u", "m", "-", "s", "c", "a", "l", "e", "=", "1", ".", "0", ",", " ", "u", "s", "e", "r", "-", "s", "c", "a", "l", "a", "b", "l", "e", "=", "n", "o">>
      [] s = "width=device-width, maximum-scale=10" -> <<"w", "i", "d", "t", "h", "=", "d", "e", "v", "i", "c", "e", "-", "w", "i", "d", "t", "h", ",", " ", "m", "a", "x", "i", "m", "u", "m", "-", "s", "c", "a", "l", "e", "=", "1", "0">>
      [] s = "pt-BR" -> <<"p", "t", "-", "B", "R">>
      [] s = "titulo-da-pagina-inicial-do-portal-de-servicos" -> <<"t", "i", "t", "u", "l", "o", "-", "d", "a", "-", "p", "a", "g", "i", "n", "a", "-", "i", "n", "i", "c", "i", "a", "l", "-", "d", "o", "-", "p", "o", "r", "t", "a", "l", "-", "d", "e", "-", "s", "e", "r", "v", "i", "c", "o", "s">>
      [] s = "titulo-principal-destaque" -> <<"t", "i", "t", "u", "l", "o", "-", "p", "r", "i", "n", "c", "i", "p", "a", "l", "-", "d", "e", "s", "t", "a", "q", "u", "e">>
      [] s = "reset" -> <<"r", "e", "s", "e", "t">>
      [] s = "Limpar" -> <<"L", "i", "m", "p", "a", "r">>
      [] s = "Busca" -> <<"B", "u", "s", "c", "a">>
      [] s = "product-List" -> <<"p", "r", "o", "d", "u", "c", "t", "-", "L", "i", "s", "t">>
      [] s = "width=device-width, initial-scale=1.0" -> <<"w", "i", "d", "t", "h", "=", "d", "e", "v", "i", "c", "e", "-", "w", "i", "d", "t", "h", ",", " ", "i", "n", "i", "t", "i", "a", "l", "-", "s", "c", "a", "l", "e", "=", "1", ".", "0">>
      [] s = "#main-content" -> <<"#", "m", "a", "i", "n", "-", "c", "o", "n", "t", "e", "n", "t">>
      [] s = "main-content" -> <<"m", "a", "i", "n", "-", "c", "o", "n", "t", "e", "n", "t">>
      [] s = "nenhum" -> <<"n", "e", "n", "h", "u", "m">>
      [] s = "titulo-secao inexistente" -> <<"t", "i", "t", "u", "l", "o", "-", "s", "e", "c", "a", "o", " ", "i", "n", "e", "x", "i", "s", "t", "e", "n", "t", "e">>
      [] s = "Inicio" -> <<"I", "n", "i", "c", "i", "o">>
      [] s = "Aviso" -> <<"A", "v", "i", "s", "o">>
      [] s = "Caixa" -> <<"C", "a", "i", "x", "a">>
      [] s = "Nota" -> <<"N", "o", "t", "a">>
      [] s = "Abrir" -> <<"A", "b", "r", "i", "r">>
      [] s = "Nome:" -> <<"N", "o", "m", "e", ":">>
      [] s = "Cidade" -> <<"C", "i", "d", "a", "d", "e">>
      [] s = " Oi " -> <<" ", "O", "i", " ">>
      [] s = " Clique Aqui " -> <<" ", "C", "l", "i", "q", "u", "e", " ", "A", "q", "u", "i", " ">>
      [] s = "Sobre a empresa" -> <<"S", "o", "b", "r", "e", " ", "a", " ", "e", "m", "p", "r", "e", "s", "a">>
      [] s = "Manual" -> <<"M", "a", "n", "u", "a", "l">>
      [] s = "Guia (abre em Nova Janela)" -> <<"G", "u", "i", "a", " ", "(", "a", "b", "r", "e", " ", "e", "m", " ", "N", "o", "v", "a", " ", "J", "a", "n", "e", "l", "a", ")">>
      [] s = "1" -> <<"1">>
      [] s = "Vendas" -> <<"V", "e", "n", "d", "a", "s">>
      [] s = "Regiao" -> <<"R", "e", "g", "i", "a", "o">>
      [] s = "Total" -> <<"T", "o", "t", "a", "l">>
      [] s = "Secao" -> <<"S", "e", "c", "a", "o">>
      [] s = "Texto" -> <<"T", "e", "x", "t", "o">>
      [] s = "Oi" -> <<"O", "i">>
      [] s = "Outro titulo" -> <<"O", "u", "t", "r", "o", " ", "t", "i", "t", "u", "l", "o">>
      [] s = "Item" -> <<"I", "t", "e", "m">>
      [] s = "Pagina Inicial - Minha Empresa" -> <<"P", "a", "g", "i", "n", "a", " ", "I", "n", "i", "c", "i", "a", "l", " ", "-", " ", "M", "i", "n", "h", "a", " ", "E", "m", "p", "r", "e", "s", "a">>
      [] s = "Minha Empresa" -> <<"M", "i", "n", "h", "a", " ", "E", "m", "p", "r", "e", "s", "a">>
      [] s = "Pular para conteudo" -> <<"P", "u", "l", "a", "r", " ", "p", "a", "r", "a", " ", "c", "o", "n", "t", "e", "u", "d", "o">>
      [] s = "Titulo Principal" -> <<"T", "i", "t", "u", "l", "o", " ", "P", "r", "i", "n", "c", "i", "p", "a", "l">>
      [] s = "list" -> <<"l", "i", "s", "t">>
      [] s = "item" -> <<"i", "t", "e", "m">>
      [] s = "<body>" -> <<"<", "b", "o", "d", "y", ">">>
      [] s = "<h1>" -> <<"<", "h", "1", ">">>
      [] s = "<div class='list/item'>" -> <<"<", "d", "i", "v", " ", "c", "l", "a", "s", "s", "=", "'", "l", "i", "s", "t", "/", "i", "t", "e", "m", "'", ">">>
      [] s = "color:" -> <<"c", "o", "l", "o", "r", ":">>
      [] s = "background:" -> <<"b", "a", "c", "k", "g", "r", "o", "u", "n", "d", ":">>
      [] s = "background-color:" -> <<"b", "a", "c", "k", "g", "r", "o", "u", "n", "d", "-", "c", "o", "l", "o", "r", ":">>
      [] s = "<head>" -> <<"<", "h", "e", "a", "d", ">">>
      [] s = "<html>" -> <<"<", "h", "t", "m", "l", ">">>
      [] s = "clique aqui" -> <<"c", "l", "i", "q", "u", "e", " ", "a", "q", "u", "i">>
      [] s = "saiba mais" -> <<"s", "a", "i", "b", "a", " ", "m", "a", "i", "s">>
      [] s = "leia mais" -> <<"l", "e", "i", "a", " ", "m", "a", "i", "s">>
      [] s = "aqui" -> <<"a", "q", "u", "i">>
      [] s = "mais" -> <<"m", "a", "i", "s">>
      [] s = "nova janela" -> <<"n", "o", "v", "a", " ", "j", "a", "n", "e", "l", "a">>
      [] s = "new window" -> <<"n", "e", "w", " ", "w", "i", "n", "d", "o", "w">>
      [] s = "user-scalable=no" -> <<"u", "s", "e", "r", "-", "s", "c", "a", "l", "a", "b", "l", "e", "=", "n", "o">>
      [] s = "maximum-scale=1" -> <<"m", "a", "x", "i", "m", "u", "m", "-", "s", "c", "a", "l", "e", "=", "1">>
      [] s = "ABNT 5.1 - Alternativas em texto" -> <<"A", "B", "N", "T", " ", "5", ".", "1", " ", "-", " ", "A", "l", "t", "e", "r", "n", "a", "t", "i", "v", "a", "s", " ", "e", "m", " ", "t", "e", "x", "t", "o">>
      [] s = "ABNT 5.3 - Estrutura semantica" -> <<"A", "B", "N", "T", " ", "5", ".", "3", " ", "-", " ", "E", "s", "t", "r", "u", "t", "u", "r", "a", " ", "s", "e", "m", "a", "n", "t", "i", "c", "a">>
      [] s = "ABNT 5.4.3 - Contraste minimo" -> <<"A", "B", "N", "T", " ", "5", ".", "4", ".", "3", " ", "-", " ", "C", "o", "n", "t", "r", "a", "s", "t", "e", " ", "m", "i", "n", "i", "m", "o">>
      [] s = "ABNT 6.1 - Navegacao por teclado" -> <<"A", "B", "N", "T", " ", "6", ".", "1", " ", "-", " ", "N", "a", "v", "e", "g", "a", "c", "a", "o", " ", "p", "o", "r", " ", "t", "e", "c", "l", "a", "d", "o">>
      [] s = "ABNT 6.4.1 - Bypass de blocos" -> <<"A", "B", "N", "T", " ", "6", ".", "4", ".", "1", " ", "-", " ", "B", "y", "p", "a", "s", "s", " ", "d", "e", " ", "b", "l", "o", "c", "o", "s">>
      [] s = "ABNT 6.4.2 - Titulos de pagina" -> <<"A", "B", "N", "T", " ", "6", ".", "4", ".", "2", " ", "-", " ", "T", "i", "t", "u", "l", "o", "s", " ", "d", "e", " ", "p", "a", "g", "i", "n", "a">>
      [] s = "ABNT 7.1 - Idioma da pagina" -> <<"A", "B", "N", "T", " ", "7", ".", "1", " ", "-", " ", "I", "d", "i", "o", "m", "a", " ", "d", "a", " ", "p", "a", "g", "i", "n", "a">>
      [] s = "ABNT 8.1 - Parsing HTML" -> <<"A", "B", "N", "T", " ", "8", ".", "1", " ", "-", " ", "P", "a", "r", "s", "i", "n", "g", " ", "H", "T", "M", "L">>
      [] s = "ABNT 8.2 - Nome, funcao e valor" -> <<"A", "B", "N", "T", " ", "8", ".", "2", " ", "-", " ", "N", "o", "m", "e", ",", " ", "f", "u", "n", "c", "a", "o", " ", "e", " ", "v", "a", "l", "o", "r">>
      [] s = "1.1.1 - Alternativas em Texto" -> <<"1", ".", "1", ".", "1", " ", "-", " ", "A", "l", "t", "e", "r", "n", "a", "t", "i", "v", "a", "s", " ", "e", "m", " ", "T", "e", "x", "t", "o">>
      [] s = "1.3.1 - Estrutura Semantica" -> <<"1", ".", "3", ".", "1", " ", "-", " ", "E", "s", "t", "r", "u", "t", "u", "r", "a", " ", "S", "e", "m", "a", "n", "t", "i", "c", "a">>
      [] s = "1.4.3 - Contraste de Cores" -> <<"1", ".", "4", ".", "3", " ", "-", " ", "C", "o", "n", "t", "r", "a", "s", "t", "e", " ", "d", "e", " ", "C", "o", "r", "e", "s">>
      [] s = "2.1.1 - Navegacao por Teclado" -> <<"2", ".", "1", ".", "1", " ", "-", " ", "N", "a", "v", "e", "g", "a", "c", "a", "o", " ", "p", "o", "r", " ", "T", "e", "c", "l", "a", "d", "o">>
      [] s = "2.4.1 - Bypass de Blocos" -> <<"2", ".", "4", ".", "1", " ", "-", " ", "B", "y", "p", "a", "s", "s", " ", "d", "e", " ", "B", "l", "o", "c", "o", "s">>
      [] s = "4.1.2 - Nome, Funcao e Valor" -> <<"4", ".", "1", ".", "2", " ", "-", " ", "N", "o", "m", "e", ",", " ", "F", "u", "n", "c", "a", "o", " ", "e", " ", "V", "a", "l", "o", "r">>
      [] s = "1.2.2 - Legendas" -> <<"1", ".", "2", ".", "2", " ", "-", " ", "L", "e", "g", "e", "n", "d", "a", "s">>
      [] s = "ABNT 5.2.2 - Legendas sincronizadas" -> <<"A", "B", "N", "T", " ", "5", ".", "2", ".", "2", " ", "-", " ", "L", "e", "g", "e", "n", "d", "a", "s", " ", "s", "i", "n", "c", "r", "o", "n", "i", "z", "a", "d", "a", "s">>
      [] s = "1.4.2 - Controle de Audio" -> <<"1", ".", "4", ".", "2", " ", "-", " ", "C", "o", "n", "t", "r", "o", "l", "e", " ", "d", "e", " ", "A", "u", "d", "i", "o">>
      [] s = "ABNT 5.4.2 - Controle de reproducao" -> <<"A", "B", "N", "T", " ", "5", ".", "4", ".", "2", " ", "-", " ", "C", "o", "n", "t", "r", "o", "l", "e", " ", "d", "e", " ", "r", "e", "p", "r", "o", "d", "u", "c", "a", "o">>
      [] s = "2.4.2 - Titulo da Pagina" -> <<"2", ".", "4", ".", "2", " ", "-", " ", "T", "i", "t", "u", "l", "o", " ", "d", "a", " ", "P", "a", "g", "i", "n", "a">>
      [] s = "3.1.1 - Idioma da Pagina" -> <<"3", ".", "1", ".", "1", " ", "-", " ", "I", "d", "i", "o", "m", "a", " ", "d", "a", " ", "P", "a", "g", "i", "n", "a">>
      [] s = "ABNT 6.4.4 - Proposito dos links" -> <<"A", "B", "N", "T", " ", "6", ".", "4", ".", "4", " ", "-", " ", "P", "r", "o", "p", "o", "s", "i", "t", "o", " ", "d", "o", "s", " ", "l", "i", "n", "k", "s">>
      [] s = "2.4.4 - Finalidade do Link" -> <<"2", ".", "4", ".", "4", " ", "-", " ", "F", "i", "n", "a", "l", "i", "d", "a", "d", "e", " ", "d", "o", " ", "L", "i", "n", "k">>
      [] s = "3.2.5 - Mudanca de Contexto" -> <<"3", ".", "2", ".", "5", " ", "-", " ", "M", "u", "d", "a", "n", "c", "a", " ", "d", "e", " ", "C", "o", "n", "t", "e", "x", "t", "o">>
      [] s = "ABNT 7.2 - Previsibilidade" -> <<"A", "B", "N", "T", " ", "7", ".", "2", " ", "-", " ", "P", "r", "e", "v", "i", "s", "i", "b", "i", "l", "i", "d", "a", "d", "e">>
      [] s = "1.3.1 - Estrutura de Tabelas" -> <<"1", ".", "3", ".", "1", " ", "-", " ", "E", "s", "t", "r", "u", "t", "u", "r", "a", " ", "d", "e", " ", "T", "a", "b", "e", "l", "a", "s">>
      [] s = "4.1.2 - ARIA Valido" -> <<"4", ".", "1", ".", "2", " ", "-", " ", "A", "R", "I", "A", " ", "V", "a", "l", "i", "d", "o">>
      [] s = "4.1.2 - ARIA Referencias" -> <<"4", ".", "1", ".", "2", " ", "-", " ", "A", "R", "I", "A", " ", "R", "e", "f", "e", "r", "e", "n", "c", "i", "a", "s">>
      [] s = "1.4.10 - Reflow/Responsividade" -> <<"1", ".", "4", ".", "1", "0", " ", "-", " ", "R", "e", "f", "l", "o", "w", "/", "R", "e", "s", "p", "o", "n", "s", "i", "v", "i", "d", "a", "d", "e">>
      [] s = "ABNT 5.4.10 - Adaptacao visual" -> <<"A", "B", "N", "T", " ", "5", ".", "4", ".", "1", "0", " ", "-", " ", "A", "d", "a", "p", "t", "a", "c", "a", "o", " ", "v", "i", "s", "u", "a", "l">>
      [] s = "1.4.4 - Redimensionamento de Texto" -> <<"1", ".", "4", ".", "4", " ", "-", " ", "R", "e", "d", "i", "m", "e", "n", "s", "i", "o", "n", "a", "m", "e", "n", "t", "o", " ", "d", "e", " ", "T", "e", "x", "t", "o">>
      [] s = "ABNT 5.4.4 - Redimensionamento" -> <<"A", "B", "N", "T", " ", "5", ".", "4", ".", "4", " ", "-", " ", "R", "e", "d", "i", "m", "e", "n", "s", "i", "o", "n", "a", "m", "e", "n", "t", "o">>
      [] s = "icon" -> <<"i", "c", "o", "n">>
      [] s = "decor" -> <<"d", "e", "c", "o", "r">>
      [] s = "bg" -> <<"b", "g">>
      [] s = "background" -> <<"b", "a", "c", "k", "g", "r", "o", "u", "n", "d">>
      [] s = "5.1 - Alternativas em texto" -> <<"5", ".", "1", " ", "-", " ", "A", "l", "t", "e", "r", "n", "a", "t", "i", "v", "a", "s", " ", "e", "m", " ", "t", "e", "x", "t", "o">>
      [] s = "5.3 - Estrutura semantica" -> <<"5", ".", "3", " ", "-", " ", "E", "s", "t", "r", "u", "t", "u", "r", "a", " ", "s", "e", "m", "a", "n", "t", "i", "c", "a">>
      [] s = "6.1 - Navegacao por teclado" -> <<"6", ".", "1", " ", "-", " ", "N", "a", "v", "e", "g", "a", "c", "a", "o", " ", "p", "o", "r", " ", "t", "e", "c", "l", "a", "d", "o">>
      [] s = "8.2 - Identificacao de campos" -> <<"8", ".", "2", " ", "-", " ", "I", "d", "e", "n", "t", "i", "f", "i", "c", "a", "c", "a", "o", " ", "d", "e", " ", "c", "a", "m", "p", "o", "s">>

EhEspaco(c) == c \in {" ", "\t", "\n"}

Maiusculas == <<"A","B","C","D","E","F","G","H","I","J","K","L","M",
                "N","O","P","Q","R","S","T","U","V","W","X","Y","Z">>

Minusculas == <<"a","b","c","d","e","f","g","h","i","j","k","l","m",
                "n","o","p","q","r","s","t","u","v","w","x","y","z">>

\* str.lower()
Lower(cs) ==
    [i \in 1..Len(cs) |->
        IF \E j \in 1..Len(Maiusculas) : Maiusculas[j] = cs[i]
        THEN Minusculas[CHOOSE j \in 1..Len(Maiusculas) : Maiusculas[j] = cs[i]]
        ELSE cs[i]]

RECURSIVE LStrip(_)
LStrip(cs) ==
    IF cs # <<>> /\ EhEspaco(Head(cs)) THEN LStrip(Tail(cs)) ELSE cs

RECURSIVE RStrip(_)
RStrip(cs) ==
    IF cs # <<>> /\ EhEspaco(cs[Len(cs)])
    THEN RStrip(SubSeq(cs, 1, Len(cs) - 1))
    ELSE cs

\* str.strip()
Strip(cs) == RStrip(LStrip(cs))

\* sub in cs
Contem(sub, cs) ==
    \E i \in 0..(Len(cs) - Len(sub)) : SubSeq(cs, i + 1, i + Len(sub)) = sub

\* cs.split(sep)[0] for a one-character sep: the text before the first sep
SplitPrimeiro(cs, sep) ==
    IF \E i \in 1..Len(cs) : cs[i] = sep
    THEN SubSeq(cs, 1, (CHOOSE i \in 1..Len(cs) :
                           /\ cs[i] = sep
                           /\ \A j \in 1..(i - 1) : cs[j] # sep) - 1)
    ELSE cs

\* cs.split(): the maximal runs of non-whitespace characters
RECURSIVE SplitEspacos(_)
SplitEspacos(cs) ==
    LET s == LStrip(cs)
        fim == IF \E i \in 1..Len(s) : EhEspaco(s[i])
               THEN (CHOOSE i \in 1..Len(s) :
                        /\ EhEspaco(s[i])
                        /\ \A j \in 1..(i - 1) : ~EhEspaco(s[j])) - 1
               ELSE Len(s)
    IN  IF s = <<>> THEN <<>>
        ELSE <<SubSeq(s, 1, fim)>> \o SplitEspacos(SubSeq(s, fim + 1, Len(s)))

\* re.match(r'^#', cs)
ComecaCom(cs, c) == cs # <<>> /\ cs[1] = c

Min(a, b) == IF a <= b THEN a ELSE b

Max(a, b) == IF a >= b THEN a ELSE b

RECURSIVE Concat(_)
Concat(ss) == IF ss = <<>> THEN <<>> ELSE Head(ss) \o Concat(Tail(ss))

\* k copies of the sequence s, one after the other
RECURSIVE Repetir(_, _)
Repetir(s, k) == IF k = 0 THEN <<>> ELSE s \o Repetir(s, k - 1)

\* The string of the characters cs
RECURSIVE Str(_)
Str(cs) == IF cs = <<>> THEN "" ELSE Head(cs) \o Str(Tail(cs))

\* ------------------------------------------------------------- documents
\* A page is a forest of elements.  An element has a tag, its attributes
\* (at: the names present and their values), its own text, its children,
\* and the text that str(element) gives (nome) with that text's length
\* (tam).

SemAt == [k \in {} |-> ""]

El(tag, at, texto, filhos, nome, tam) ==
    [tag |-> tag, at |-> at, texto |-> texto, filhos |-> filhos,
     nome |-> nome, tam |-> tam]

ImgSemAlt == El("img", [src |-> "x.png"], "", <<>>, "img-sem-alt", 19)

ImgAltVazio ==
    El("img", [src |-> "foto.jpg", alt |-> ""], "", <<>>, "img-alt-vazio", 28)

ImgDecorativa ==
    El("img", [src |-> "seta.png", alt |-> " ", class |-> "nav-Icon"], "",
       <<>>, "img-decorativa", 46)

ImgOk ==
    El("img", [src |-> "logo.png", alt |-> "Logotipo"], "", <<>>, "img-ok", 36)

ImgLonga ==
    El("img", [src |-> "banner.png"], "", <<>>, "img-longa", 140)

LinkComImagem ==
    El("a", [href |-> "/"], "Inicio",
       <<El("img", [src |-> "home.png", alt |-> ""], "", <<>>, "img-em-link", 28)>>,
       "link-com-imagem", 51)

InputImagem ==
    El("input", [type |-> "image", src |-> "ok.png"], "", <<>>, "input-imagem", 36)

PCorFundo ==
    El("p", [style |-> "color: red; background-color: blue"], "Aviso", <<>>,
       "p-cor-fundo", 58)

DivSoFundo ==
    El("div", [style |-> "background-color: blue"], "Caixa", <<>>,
       "div-so-fundo", 50)

SpanSoCor ==
    El("span", [style |-> "color: red"], "Nota", <<>>, "span-so-cor", 39)

DivOnclick ==
    El("div", [onclick |-> "abrir()"], "Abrir", <<>>, "div-onclick", 35)

SpanBotao ==
    El("span", [onclick |-> "abrir()", role |-> "button"], "Abrir", <<>>,
       "span-botao", 51)

DivTabindex ==
    El("div", [onclick |-> "abrir()", tabindex |-> "0"], "Abrir", <<>>,
       "div-tabindex", 48)

InputSemLabel ==
    El("input", [type |-> "text", name |-> "q", required |-> ""], "", <<>>,
       "input-sem-label", 41)

LabelFor == El("label", [for |-> "nome"], "Nome:", <<>>, "label-for", 31)

InputComId ==
    El("input", [type |-> "text", id |-> "nome"], "", <<>>, "input-com-id", 30)

LabelComInput ==
    El("label", SemAt, "Cidade",
       <<El("input", [name |-> "cidade"], "", <<>>, "input-em-label", 23)>>,
       "label-com-input", 44)

InputHidden ==
    El("input", [type |-> "hidden", name |-> "token"], "", <<>>,
       "input-hidden", 35)

VideoAutoplay ==
    El("video", [src |-> "v.mp4", autoplay |-> "autoplay"], "", <<>>,
       "video-autoplay", 47)

VideoLegendado ==
    El("video", [src |-> "w.mp4", autoplay |-> ""], "",
       <<El("track", [kind |-> "captions", src |-> "w.vtt"], "", <<>>, "track", 38)>>,
       "video-legendado", 76)

AudioAutoplay ==
    El("audio", [src |-> "a.mp3", autoplay |-> "true"], "", <<>>,
       "audio-autoplay", 43)

TitleCurto == El("title", SemAt, " Oi ", <<>>, "title-curto", 19)

LinkVazio == El("a", [href |-> "/x"], "", <<>>, "link-vazio", 17)

LinkGenerico ==
    El("a", [href |-> "/servicos"], " Clique Aqui ", <<>>, "link-generico", 37)

LinkOk ==
    El("a", [href |-> "/sobre"], "Sobre a empresa", <<>>, "link-ok", 36)

LinkNovaJanela ==
    El("a", [href |-> "/manual", target |-> "_blank"], "Manual", <<>>,
       "link-nova-janela", 44)

LinkAvisado ==
    El("a", [href |-> "/guia", target |-> "_blank"], "Guia (abre em Nova Janela)",
       <<>>, "link-avisado", 62)

TabelaSimples ==
    El("table", SemAt, "",
       <<El("tr", SemAt, "", <<El("td", SemAt, "1", <<>>, "td", 10)>>, "tr", 19)>>,
       "tabela-simples", 34)

TabelaComTh ==
    El("table", SemAt, "",
       <<El("caption", SemAt, "Vendas", <<>>, "caption", 25),
         El("tr", SemAt, "",
            <<El("th", SemAt, "Regiao", <<>>, "th-sem-scope", 15),
              El("th", [scope |-> "col"], "Total", <<>>, "th-com-scope", 26)>>,
            "tr-th", 50)>>,
       "tabela-com-th", 90)

H2ComId == El("h2", [id |-> "titulo-secao"], "Secao", <<>>, "h2-com-id", 32)

DivRoleInvalido ==
    El("div", [role |-> "foo"], "Caixa", <<>>, "div-role-invalido", 31)

DivLabelledby ==
    El("div", ("aria-labelledby" :> "titulo-secao inexistente"), "Texto", <<>>,
       "div-labelledby", 60)

MetaViewportBloqueado ==
    El("meta", [name |-> "viewport",
                content |-> "width=device-width, user-scalable=no"], "", <<>>,
       "meta-viewport-bloqueado", 71)

MetaViewportLongo ==
    El("meta", [name |-> "viewport",
                content |-> "width=device-width, initial-scale=1.0, maximum-scale=1.0, user-scalable=no"],
       "", <<>>, "meta-viewport-longo", 108)

MetaViewportAmplo ==
    El("meta", [name |-> "viewport",
                content |-> "width=device-width, maximum-scale=10"], "", <<>>,
       "meta-viewport-amplo", 71)

TitleLongo ==
    El("title", [lang |-> "pt-BR",
                 id |-> "titulo-da-pagina-inicial-do-portal-de-servicos",
                 class |-> "titulo-principal-destaque"],
       "Oi", <<>>, "title-longo", 116)

InputReset ==
    El("input", [type |-> "reset", value |-> "Limpar"], "", <<>>,
       "input-reset", 36)

InputAriaVazio ==
    El("input", ("type" :> "text") @@ ("aria-label" :> ""), "", <<>>,
       "input-aria-vazio", 34)

InputComTitulo ==
    El("input", [type |-> "text", title |-> "Busca"], "", <<>>,
       "input-com-titulo", 34)

H1Extra == El("h1", SemAt, "Outro titulo", <<>>, "h1-extra", 21)

DivLista ==
    El("div", [class |-> "product-List"], "Item", <<>>, "div-lista", 37)

\* The blocks of markup a document may repeat, by name.
NomesDeBloco ==
    {"imagens", "contraste", "teclado", "formularios", "multimidia", "titulo",
     "links", "nova-janela", "tabelas", "aria", "viewport", "semantica",
     "viewport-longo", "titulo-longo", "campos", "viewport-amplo"}

Bloco(nome) ==
    CASE nome = "nenhum" -> <<>>
      [] nome = "imagens" ->
            <<ImgSemAlt, ImgAltVazio, ImgDecorativa, ImgOk, LinkComImagem,
              InputImagem, ImgLonga>>
      [] nome = "contraste" -> <<PCorFundo, DivSoFundo, SpanSoCor>>
      [] nome = "teclado" -> <<DivOnclick, SpanBotao, DivTabindex>>
      [] nome = "formularios" ->
            <<InputSemLabel, LabelFor, InputComId, LabelComInput, InputHidden>>
      [] nome = "multimidia" -> <<VideoAutoplay, VideoLegendado, AudioAutoplay>>
      [] nome = "titulo" -> <<TitleCurto>>
      [] nome = "links" -> <<LinkVazio, LinkGenerico, LinkOk>>
      [] nome = "nova-janela" -> <<LinkNovaJanela, LinkAvisado>>
      [] nome = "tabelas" -> <<TabelaSimples, TabelaComTh>>
      [] nome = "aria" -> <<H2ComId, DivRoleInvalido, DivLabelledby>>
      [] nome = "viewport" -> <<MetaViewportBloqueado>>
      [] nome = "semantica" -> <<H1Extra, DivLista>>
      [] nome = "viewport-longo" -> <<MetaViewportLongo>>
      [] nome = "titulo-longo" -> <<TitleLongo>>
      [] nome = "campos" -> <<InputReset, InputAriaVazio, InputComTitulo>>
      [] nome = "viewport-amplo" -> <<MetaViewportAmplo>>

\* A page that satisfies every rule, around the given body content.
PaginaLimpa(conteudo) ==
    <<El("html", [lang |-> "pt-BR"], "",
         <<El("title", SemAt, "Pagina Inicial - Minha Empresa", <<>>, "title", 45),
           El("meta", [name |-> "viewport",
                       content |-> "width=device-width, initial-scale=1.0"],
              "", <<>>, "meta-viewport", 72),
           El("header", SemAt, "Minha Empresa", <<>>, "header", 30),
           El("nav", SemAt, "",
              <<El("a", [href |-> "#main-content"], "Pular para conteudo", <<>>,
                   "skip-link", 51)>>,
              "nav", 62),
           El("main", [id |-> "main-content"], "",
              <<El("h1", SemAt, "Titulo Principal", <<>>, "h1", 25)>> \o conteudo,
              "main", 120)>>,
         "html", 400)>>

\* The documents a fetch may return.  A document is named by its frame (an
\* empty page or the clean page), the block it holds and how many copies of
\* the block; Arvore gives its tree.
Documentos ==
    {[cab |-> c, bloco |-> "nenhum", copias |-> 1] : c \in {"vazia", "limpa"}}
    \cup
    [cab : {"vazia", "limpa"}, bloco : NomesDeBloco, copias : {1, MaxCopias}]

\* response.content of the document d
Conteudo(d) ==
    IF d.cab = "limpa"
    THEN PaginaLimpa(Repetir(Bloco(d.bloco), d.copias))
    ELSE Repetir(Bloco(d.bloco), d.copias)

\* BeautifulSoup(response.content, 'html.parser'): the tree, where each
\* element also carries the characters of its text (texto_chars) and of
\* its attribute values (at_chars)
RECURSIVE Parse(_)
Parse(els) ==
    [i \in 1..Len(els) |->
        [tag |-> els[i].tag,
         at |-> els[i].at,
         at_chars |-> [a \in DOMAIN els[i].at |-> Chars(els[i].at[a])],
         texto |-> els[i].texto,
         texto_chars |-> Chars(els[i].texto),
         filhos |-> Parse(els[i].filhos),
         nome |-> els[i].nome,
         tam |-> els[i].tam]]

Arvore(d) == Parse(Conteudo(d))

\* ---------------------------------------------------------- tree queries

\* The nodes below the elements els, in document order, each with its
\* ancestors (outermost first).
RECURSIVE NosDe(_, _)
NosDe(els, anc) ==
    IF els = <<>> THEN <<>>
    ELSE <<[el |-> Head(els), anc |-> anc]>>
         \o NosDe(Head(els).filhos, Append(anc, Head(els)))
         \o NosDe(Tail(els), anc)

Nos(arvore) == NosDe(arvore, <<>>)

\* element.find_all(...) below one element
Descendentes(e) == NosDe(e.filhos, <<e>>)

Tem(e, a) == a \in DOMAIN e.at

\* element.get(a, padrao) where the caller gives a default
Get(e, a, padrao) == IF Tem(e, a) THEN e.at[a] ELSE padrao

\* the characters of element.get(a, '')
GetChars(e, a) == IF Tem(e, a) THEN e.at_chars[a] ELSE <<>>

\* bool(element.get(a)): the attribute is present and not the empty string
Verdadeiro(e, a) == Tem(e, a) /\ e.at[a] # ""

\* soup.find_all(tags)
FindAll(arvore, tags) == SelectSeq(Nos(arvore), LAMBDA n : n.el.tag \in tags)

\* soup.find_all(tags, attr=True)
FindAllCom(arvore, tags, a) ==
    SelectSeq(Nos(arvore), LAMBDA n : n.el.tag \in tags /\ Tem(n.el, a))

\* soup.find_all(attrs={a: True})
FindAllAtributo(arvore, a) == SelectSeq(Nos(arvore), LAMBDA n : Tem(n.el, a))

\* soup.find(tag, {a: v}) is not None
ExisteCom(arvore, tag, a, v) ==
    \E n \in {Nos(arvore)[i] : i \in 1..Len(Nos(arvore))} :
        n.el.tag = tag /\ Tem(n.el, a) /\ n.el.at[a] = v

\* element.find_parent(tag): the nearest ancestor with the tag, if any
TemPai(n, tag) == \E i \in 1..Len(n.anc) : n.anc[i].tag = tag

Pai(n, tag) ==
    n.anc[CHOOSE i \in 1..Len(n.anc) :
             /\ n.anc[i].tag = tag
             /\ \A j \in (i + 1)..Len(n.anc) : n.anc[j].tag # tag]

\* element.get_text(): the element's text and its descendants' texts
RECURSIVE GetText(_)
GetText(e) ==
    e.texto_chars
    \o Concat([i \in 1..Len(e.filhos) |-> GetText(e.filhos[i])])

\* str(element)[:100]
Trecho(e) == [markup |-> e.nome, tam |-> Min(e.tam, 100)]

\* str(element)
Inteiro(e) == [markup |-> e.nome, tam |-> e.tam]

\* a literal such as "<body>" given as the finding's elemento
Literal(s) == [markup |-> s, tam |-> Len(Chars(s))]

\* ------------------------------------------------------------- findings

\* ProblemaAcessibilidade: the fields the report reads.  descricao,
\* sugestao, referencia_wcag and codigo_exemplo are texts that no
\* computation reads.
ProblemaAcessibilidade(criterio, severidade, nivel, elemento, abnt) ==
    [criterio |-> criterio, severidade |-> severidade, nivel_wcag |-> nivel,
     elemento |-> elemento, referencia_abnt |-> abnt]

\* self.mapeamento_normas
MapeamentoNormas(chave) ==
    CASE chave = "1.1.1" -> "ABNT 5.1 - Alternativas em texto"
      [] chave = "1.3.1" -> "ABNT 5.3 - Estrutura semantica"
      [] chave = "1.4.3" -> "ABNT 5.4.3 - Contraste minimo"
      [] chave = "2.1.1" -> "ABNT 6.1 - Navegacao por teclado"
      [] chave = "2.4.1" -> "ABNT 6.4.1 - Bypass de blocos"
      [] chave = "2.4.2" -> "ABNT 6.4.2 - Titulos de pagina"
      [] chave = "3.1.1" -> "ABNT 7.1 - Idioma da pagina"
      [] chave = "4.1.1" -> "ABNT 8.1 - Parsing HTML"
      [] chave = "4.1.2" -> "ABNT 8.2 - Nome, funcao e valor"

\* The findings of a loop: those of each node, in the nodes' order.
PorNo(nos, Achados(_)) == Concat([i \in 1..Len(nos) |-> Achados(nos[i])])

\* ' '.join(tokens)
RECURSIVE Join(_)
Join(tokens) ==
    IF tokens = <<>> THEN <<>>
    ELSE IF Len(tokens) = 1 THEN Head(tokens)
    ELSE Head(tokens) \o <<" ">> \o Join(Tail(tokens))

\* _is_decorative without the test of the classes: an image with an icon
\* class and an empty alt is then reported, against C17.
IsDecorativeSoPorLink(n) ==
    TemPai(n, "a") /\ Strip(GetText(Pai(n, "a"))) # <<>>

\* _is_decorative
IsDecorative(n) ==
    \/ TemPai(n, "a") /\ Strip(GetText(Pai(n, "a"))) # <<>>
    \/ \E word \in {"icon", "decor", "bg", "background"} :
          Contem(Chars(word), Lower(Join(SplitEspacos(GetChars(n.el, "class")))))

\* _verificar_alternativas_texto
VerificarAlternativasTexto(arvore) ==
    LET abnt == MapeamentoNormas("1.1.1")
        DeImagem(n) ==
            IF ~Tem(n.el, "alt")
            THEN <<ProblemaAcessibilidade("1.1.1 - Alternativas em Texto",
                       "CRITICO", "A", Trecho(n.el), abnt)>>
            ELSE IF Strip(n.el.at_chars.alt) = <<>> /\ ~IsDecorative(n)
            THEN <<ProblemaAcessibilidade("1.1.1 - Alternativas em Texto",
                       "GRAVE", "A", Trecho(n.el), abnt)>>
            ELSE <<>>
        DeInput(n) ==
            IF ~Verdadeiro(n.el, "alt")
            THEN <<ProblemaAcessibilidade("1.1.1 - Alternativas em Texto",
                       "CRITICO", "A", Trecho(n.el), abnt)>>
            ELSE <<>>
        inputs_img ==
            SelectSeq(FindAll(arvore, {"input"}),
                      LAMBDA n : Get(n.el, "type", "") = "image")
    IN  PorNo(FindAll(arvore, {"img"}), DeImagem) \o PorNo(inputs_img, DeInput)

\* re.compile(r'list|item', re.I) searched in one class of the element
ClasseDeLista(e) ==
    \E c \in {SplitEspacos(GetChars(e, "class"))[i] :
                 i \in 1..Len(SplitEspacos(GetChars(e, "class")))} :
        Contem(Chars("list"), Lower(c)) \/ Contem(Chars("item"), Lower(c))

\* _verificar_estrutura_semantica
VerificarEstruturaSemantica(arvore) ==
    LET abnt == MapeamentoNormas("1.3.1")
        crit == "1.3.1 - Estrutura Semantica"
        headings == FindAll(arvore, {"h1", "h2", "h3", "h4", "h5", "h6"})
        h1_count == Len(FindAll(arvore, {"h1"}))
        found_landmarks ==
            {tag \in {"header", "nav", "main", "footer", "aside", "section"} :
                FindAll(arvore, {tag}) # <<>>}
        divs_como_listas ==
            SelectSeq(FindAll(arvore, {"div"}),
                      LAMBDA n : Tem(n.el, "class") /\ ClasseDeLista(n.el))
    IN  (IF headings = <<>>
         THEN <<ProblemaAcessibilidade(crit, "GRAVE", "A", Literal("<body>"), abnt)>>
         ELSE <<>>)
        \o (IF h1_count > 1
            THEN <<ProblemaAcessibilidade(crit, "MODERADO", "A", Literal("<h1>"), abnt)>>
            ELSE <<>>)
        \o (IF Cardinality(found_landmarks) < 3
            THEN <<ProblemaAcessibilidade(crit, "MODERADO", "A", Literal("<body>"), abnt)>>
            ELSE <<>>)
        \o (IF Len(divs_como_listas) > 3
            THEN <<ProblemaAcessibilidade(crit, "LEVE", "A",
                       Literal("<div class='list/item'>"), abnt)>>
            ELSE <<>>)

\* re.findall(prefixo + r'\s*([^;]+)', cs) is not empty: somewhere the
\* prefix stands followed by a character that is not ';'
SegueValor(cs, prefixo) ==
    \E i \in 1..(Len(cs) - Len(prefixo)) :
        /\ SubSeq(cs, i, i + Len(prefixo) - 1) = prefixo
        /\ cs[i + Len(prefixo)] # ";"

\* cores: re.findall(r'color:\s*([^;]+)', style)
TemCor(style) == SegueValor(style, Chars("color:"))

\* bg_cores: re.findall(r'background(?:-color)?:\s*([^;]+)', style)
TemCorDeFundo(style) ==
    \/ SegueValor(style, Chars("background:"))
    \/ SegueValor(style, Chars("background-color:"))

\* _verificar_contraste_cores
VerificarContrasteCores(arvore) ==
    LET DeElemento(n) ==
            IF TemCor(GetChars(n.el, "style")) /\ TemCorDeFundo(GetChars(n.el, "style"))
            THEN <<ProblemaAcessibilidade("1.4.3 - Contraste de Cores",
                       "MODERADO", "AA", Trecho(n.el),
                       MapeamentoNormas("1.4.3"))>>
            ELSE <<>>
    IN  PorNo(FindAllAtributo(arvore, "style"), DeElemento)

\* _verificar_navegacao_teclado
VerificarNavegacaoTeclado(arvore) ==
    LET DeElemento(n) ==
            IF ~Tem(n.el, "tabindex")
               /\ ~(Tem(n.el, "role") /\ n.el.at.role \in {"button", "link"})
            THEN <<ProblemaAcessibilidade("2.1.1 - Navegacao por Teclado",
                       "CRITICO", "A", Trecho(n.el), MapeamentoNormas("2.1.1"))>>
            ELSE <<>>
        skip_links ==
            SelectSeq(FindAllCom(arvore, {"a"}, "href"),
                      LAMBDA n : ComecaCom(n.el.at_chars.href, "#"))
    IN  PorNo(FindAllCom(arvore, {"div", "span"}, "onclick"), DeElemento)
        \o (IF skip_links = <<>>
            THEN <<ProblemaAcessibilidade("2.4.1 - Bypass de Blocos", "GRAVE",
                       "A", Literal("<body>"), MapeamentoNormas("2.4.1"))>>
            ELSE <<>>)

\* _verificar_formularios
VerificarFormularios(arvore) ==
    LET abnt == MapeamentoNormas("4.1.2")
        crit == "4.1.2 - Nome, Funcao e Valor"
        campos == FindAll(arvore, {"input", "select", "textarea"})
        SemLabel(n) ==
            LET label_encontrado ==
                    \/ /\ Verdadeiro(n.el, "id")
                       /\ ExisteCom(arvore, "label", "for", n.el.at.id)
                    \/ TemPai(n, "label")
            IN  IF Get(n.el, "type", "text") \in {"hidden", "submit", "button", "image"}
                THEN <<>>
                ELSE IF ~(\/ label_encontrado
                          \/ Verdadeiro(n.el, "aria-label")
                          \/ Verdadeiro(n.el, "aria-labelledby")
                          \/ Verdadeiro(n.el, "title"))
                THEN <<ProblemaAcessibilidade(crit, "CRITICO", "A",
                           Trecho(n.el), abnt)>>
                ELSE <<>>
        Obrigatorio(n) ==
            IF Get(n.el, "aria-required", "") # "true"
            THEN <<ProblemaAcessibilidade(crit, "LEVE", "A", Trecho(n.el), abnt)>>
            ELSE <<>>
    IN  PorNo(campos, SemLabel)
        \o PorNo(SelectSeq(campos, LAMBDA n : Tem(n.el, "required")), Obrigatorio)

\* _verificar_multimedia
VerificarMultimedia(arvore) ==
    LET DeVideo(n) ==
            LET tracks ==
                    SelectSeq(Descendentes(n.el),
                              LAMBDA m : /\ m.el.tag = "track"
                                         /\ Get(m.el, "kind", "") = "captions")
            IN  IF n.el.tag # "video" THEN <<>>
                ELSE (IF tracks = <<>>
                      THEN <<ProblemaAcessibilidade("1.2.2 - Legendas", "CRITICO",
                                 "A", Trecho(n.el),
                                 "ABNT 5.2.2 - Legendas sincronizadas")>>
                      ELSE <<>>)
                     \o (IF Verdadeiro(n.el, "autoplay")
                         THEN <<ProblemaAcessibilidade("1.4.2 - Controle de Audio",
                                    "GRAVE", "A", Trecho(n.el),
                                    "ABNT 5.4.2 - Controle de reproducao")>>
                         ELSE <<>>)
        DeAudio(n) ==
            IF Verdadeiro(n.el, "autoplay")
            THEN <<ProblemaAcessibilidade("1.4.2 - Controle de Audio", "GRAVE",
                       "A", Trecho(n.el), "ABNT 5.4.2 - Controle de reproducao")>>
            ELSE <<>>
    IN  PorNo(FindAll(arvore, {"video", "iframe"}), DeVideo)
        \o PorNo(FindAll(arvore, {"audio"}), DeAudio)

\* _verificar_titulos_pagina
VerificarTitulosPagina(arvore) ==
    LET titles == FindAll(arvore, {"title"})
        crit == "2.4.2 - Titulo da Pagina"
    IN  IF titles = <<>>
        THEN <<ProblemaAcessibilidade(crit, "CRITICO", "A", Literal("<head>"),
                   MapeamentoNormas("2.4.2"))>>
        ELSE IF Len(Strip(GetText(titles[1].el))) < 3
        THEN <<ProblemaAcessibilidade(crit, "GRAVE", "A", Inteiro(titles[1].el),
                   MapeamentoNormas("2.4.2"))>>
        ELSE <<>>

\* _verificar_idioma
VerificarIdioma(arvore) ==
    LET htmls == FindAll(arvore, {"html"})
    IN  IF htmls = <<>> \/ ~Verdadeiro(htmls[1].el, "lang")
        THEN <<ProblemaAcessibilidade("3.1.1 - Idioma da Pagina", "CRITICO", "A",
                   Literal("<html>"), MapeamentoNormas("3.1.1"))>>
        ELSE <<>>

\* textos_genericos
TextosGenericos ==
    {Chars("clique aqui"), Chars("saiba mais"), Chars("leia mais"),
     Chars("aqui"), Chars("mais")}

\* _verificar_links
VerificarLinks(arvore) ==
    LET abnt == "ABNT 6.4.4 - Proposito dos links"
        crit == "2.4.4 - Finalidade do Link"
        DeLink(n) ==
            LET texto == Strip(GetText(n.el))
                aria_label == Verdadeiro(n.el, "aria-label")
                tem_img ==
                    \E i \in 1..Len(Descendentes(n.el)) :
                        Descendentes(n.el)[i].el.tag = "img"
                aviso_nova_janela ==
                    \/ Contem(Chars("nova janela"), Lower(texto))
                    \/ Contem(Chars("new window"), Lower(texto))
            IN  (IF texto = <<>> /\ ~aria_label /\ ~tem_img
                 THEN <<ProblemaAcessibilidade(crit, "CRITICO", "A",
                            Trecho(n.el), abnt)>>
                 ELSE <<>>)
                \o (IF Lower(texto) \in TextosGenericos /\ ~aria_label
                    THEN <<ProblemaAcessibilidade(crit, "MODERADO", "A",
                               Trecho(n.el), abnt)>>
                    ELSE <<>>)
                \o (IF /\ Get(n.el, "target", "") = "_blank"
                       /\ ~aviso_nova_janela
                       /\ ~aria_label
                    THEN <<ProblemaAcessibilidade("3.2.5 - Mudanca de Contexto",
                               "LEVE", "AAA", Trecho(n.el),
                               "ABNT 7.2 - Previsibilidade")>>
                    ELSE <<>>)
    IN  PorNo(FindAllCom(arvore, {"a"}, "href"), DeLink)

\* _verificar_tabelas
VerificarTabelas(arvore) ==
    LET abnt == MapeamentoNormas("1.3.1")
        crit == "1.3.1 - Estrutura de Tabelas"
        DeTabela(n) ==
            LET dentro == Descendentes(n.el)
                Com(tag) == SelectSeq(dentro, LAMBDA m : m.el.tag = tag)
                SemScope(m) ==
                    IF ~Verdadeiro(m.el, "scope")
                    THEN <<ProblemaAcessibilidade(crit, "LEVE", "A",
                               Trecho(m.el), abnt)>>
                    ELSE <<>>
            IN  (IF Com("caption") = <<>>
                 THEN <<ProblemaAcessibilidade(crit, "MODERADO", "A",
                            Trecho(n.el), abnt)>>
                 ELSE <<>>)
                \o (IF Com("thead") = <<>> /\ Com("th") = <<>>
                    THEN <<ProblemaAcessibilidade(crit, "GRAVE", "A",
                               Trecho(n.el), abnt)>>
                    ELSE <<>>)
                \o PorNo(Com("th"), SemScope)
    IN  PorNo(FindAll(arvore, {"table"}), DeTabela)

\* roles_validos
RolesValidos ==
    {"alert", "alertdialog", "application", "article", "banner", "button",
     "checkbox", "complementary", "contentinfo", "dialog", "directory",
     "document", "form", "grid", "gridcell", "group", "heading", "img", "link",
     "list", "listbox", "listitem", "log", "main", "marquee", "math", "menu",
     "menubar", "menuitem", "menuitemcheckbox", "menuitemradio", "navigation",
     "note", "option", "presentation", "progressbar", "radio", "radiogroup",
     "region", "row", "rowgroup", "rowheader", "scrollbar", "search",
     "separator", "slider", "spinbutton", "status", "tab", "tablist",
     "tabpanel", "textbox", "timer", "toolbar", "tooltip", "tree", "treegrid",
     "treeitem"}

\* _verificar_aria
VerificarAria(arvore) ==
    LET abnt == MapeamentoNormas("4.1.2")
        DeRole(n) ==
            IF n.el.at.role \notin RolesValidos
            THEN <<ProblemaAcessibilidade("4.1.2 - ARIA Valido", "GRAVE", "A",
                       Trecho(n.el), abnt)>>
            ELSE <<>>
        ExisteId(id_ref) ==
            \E m \in {Nos(arvore)[i] : i \in 1..Len(Nos(arvore))} :
                Tem(m.el, "id") /\ m.el.at_chars.id = id_ref
        DeLabelledby(n) ==
            LET labelledby_ids == SplitEspacos(n.el.at_chars["aria-labelledby"])
                DeId(id_ref) ==
                    IF ~ExisteId(id_ref)
                    THEN <<ProblemaAcessibilidade("4.1.2 - ARIA Referencias",
                               "GRAVE", "A", Trecho(n.el), abnt)>>
                    ELSE <<>>
            IN  PorNo(labelledby_ids, DeId)
    IN  PorNo(FindAllAtributo(arvore, "role"), DeRole)
        \o PorNo(FindAllAtributo(arvore, "aria-labelledby"), DeLabelledby)

\* _verificar_responsividade
VerificarResponsividade(arvore) ==
    LET viewports ==
            SelectSeq(FindAll(arvore, {"meta"}),
                      LAMBDA n : Get(n.el, "name", "") = "viewport")
        content == GetChars(viewports[1].el, "content")
    IN  IF viewports = <<>>
        THEN <<ProblemaAcessibilidade("1.4.10 - Reflow/Responsividade", "GRAVE",
                   "AA", Literal("<head>"), "ABNT 5.4.10 - Adaptacao visual")>>
        ELSE IF \/ Contem(Chars("user-scalable=no"), content)
                \/ Contem(Chars("maximum-scale=1"), content)
        THEN <<ProblemaAcessibilidade("1.4.4 - Redimensionamento de Texto",
                   "CRITICO", "AA", Inteiro(viewports[1].el),
                   "ABNT 5.4.4 - Redimensionamento")>>
        ELSE <<>>

\* The rules in the order avaliar_website calls them.
NumRegras == 12

Regras == 1..NumRegras

\* avaliar_website with the first two rule calls exchanged: the semantic
\* structure rule runs before the text alternatives rule, against C13.
VerificarForaDeOrdem(r, arvore) ==
    CASE r = 1 -> VerificarEstruturaSemantica(arvore)
      [] r = 2 -> VerificarAlternativasTexto(arvore)
      [] r = 3 -> VerificarContrasteCores(arvore)
      [] r = 4 -> VerificarNavegacaoTeclado(arvore)
      [] r = 5 -> VerificarFormularios(arvore)
      [] r = 6 -> VerificarMultimedia(arvore)
      [] r = 7 -> VerificarTitulosPagina(arvore)
      [] r = 8 -> VerificarIdioma(arvore)
      [] r = 9 -> VerificarLinks(arvore)
      [] r = 10 -> VerificarTabelas(arvore)
      [] r = 11 -> VerificarAria(arvore)
      [] r = 12 -> VerificarResponsividade(arvore)

Verificar(r, arvore) ==
    CASE r = 1 -> VerificarAlternativasTexto(arvore)
      [] r = 2 -> VerificarEstruturaSemantica(arvore)
      [] r = 3 -> VerificarContrasteCores(arvore)
      [] r = 4 -> VerificarNavegacaoTeclado(arvore)
      [] r = 5 -> VerificarFormularios(arvore)
      [] r = 6 -> VerificarMultimedia(arvore)
      [] r = 7 -> VerificarTitulosPagina(arvore)
      [] r = 8 -> VerificarIdioma(arvore)
      [] r = 9 -> VerificarLinks(arvore)
      [] r = 10 -> VerificarTabelas(arvore)
      [] r = 11 -> VerificarAria(arvore)
      [] r = 12 -> VerificarResponsividade(arvore)

\* What rule r appends when self.soup is the document d.
AchadosDaRegra(d, r) == Verificar(r, Arvore(d))

\* ------------------------------------------------------------ aggregation

\* pesos_severidade with the weights of GRAVE and MODERADO exchanged: the
\* score of C1 is not the one this table gives.
PesosSeveridadeTrocados(s) ==
    CASE s = "CRITICO" -> 10
      [] s = "GRAVE" -> 2
      [] s = "MODERADO" -> 5
      [] s = "LEVE" -> 1

\* pesos_severidade
PesosSeveridade(s) ==
    CASE s = "CRITICO" -> 10
      [] s = "GRAVE" -> 5
      [] s = "MODERADO" -> 2
      [] s = "LEVE" -> 1

\* sum(pesos_severidade[p.severidade] for p in lista)
RECURSIVE PontosPerdidos(_)
PontosPerdidos(lista) ==
    IF lista = <<>> THEN 0
    ELSE PesosSeveridade(Head(lista).severidade) + PontosPerdidos(Tail(lista))

\* _calcular_pontuacao without max(0, ...): the score falls below 0, which
\* C2 excludes.
CalcularPontuacaoSemPiso(lista) ==
    IF lista = <<>> THEN 100
    ELSE 100 - PontosPerdidos(lista)

\* _calcular_pontuacao without the early return for the empty list and
\* with the points taken from 99: the empty list does not score 100, which
\* C4 requires.
CalcularPontuacaoDeNoventaENove(lista) == Max(0, 99 - PontosPerdidos(lista))

\* _calcular_pontuacao.  The points are integers, so round(pontuacao, 2)
\* gives the integer back and the score is a whole number of points.
CalcularPontuacao(lista) ==
    IF lista = <<>> THEN 100
    ELSE Max(0, 100 - PontosPerdidos(lista))

\* sum(1 for p in lista if Cond(p))
Contar(lista, Cond(_)) == Len(SelectSeq(lista, Cond))

\* p.criterio.split('-')[0].strip()
Categoria(criterio) == Str(Strip(SplitPrimeiro(Chars(criterio), "-")))

\* The category of each finding of the list, in the list's order.
Categorias(lista) == [i \in 1..Len(lista) |-> Categoria(lista[i].criterio)]

\* categorias[categoria]: how many findings are of the category
Ocorrencias(cats, cat) == Cardinality({i \in 1..Len(cats) : cats[i] = cat})

\* max over the categories where a later category of the same count wins:
\* of the categories that tie for the highest count, the one whose first
\* finding comes last, against C22.
MaisFrequenteDoFim(cats) ==
    cats[CHOOSE k \in 1..Len(cats) :
            /\ \A j \in 1..Len(cats) :
                  Ocorrencias(cats, cats[j]) <= Ocorrencias(cats, cats[k])
            /\ \A j \in 1..(k - 1) : cats[j] # cats[k]
            /\ \A j \in (k + 1)..Len(cats) :
                  cats[j] # cats[k] /\ (\A i \in 1..(j - 1) : cats[i] # cats[j])
                     => Ocorrencias(cats, cats[j]) < Ocorrencias(cats, cats[k])]

\* max(categorias.items(), key=lambda x: x[1]) over the categories cats of
\* the findings: the items stand in insertion order (each category at its
\* first finding), and max gives the first whose count no other exceeds
MaisFrequente(cats) ==
    cats[CHOOSE k \in 1..Len(cats) :
            /\ \A j \in 1..Len(cats) :
                  Ocorrencias(cats, cats[j]) <= Ocorrencias(cats, cats[k])
            /\ \A j \in 1..(k - 1) :
                  Ocorrencias(cats, cats[j]) < Ocorrencias(cats, cats[k])]

CategoriaMaisProblemas(lista) ==
    [categoria |-> MaisFrequente(Categorias(lista)),
     ocorrencias |-> Ocorrencias(Categorias(lista), MaisFrequente(Categorias(lista)))]

\* _gerar_recomendacoes_priorizadas with the level A line appended before
\* the category line: the lines are not in the order C16 states.
GerarRecomendacoesNivelAPrimeiro(lista) ==
    LET criticos == Contar(lista, LAMBDA p : p.severidade = "CRITICO")
        graves == Contar(lista, LAMBDA p : p.severidade = "GRAVE")
        nivel_a == Contar(lista, LAMBDA p : p.nivel_wcag = "A")
    IN  (IF criticos > 0
         THEN <<[tipo |-> "PRIORIDADE CRITICA", n |-> criticos]>> ELSE <<>>)
        \o (IF graves > 0
            THEN <<[tipo |-> "PRIORIDADE ALTA", n |-> graves]>> ELSE <<>>)
        \o (IF nivel_a > 0
            THEN <<[tipo |-> "violacoes do Nivel A", n |-> nivel_a]>> ELSE <<>>)
        \o (IF lista # <<>>
            THEN <<[tipo |-> "Categoria com mais problemas",
                    categoria |-> CategoriaMaisProblemas(lista).categoria,
                    n |-> CategoriaMaisProblemas(lista).ocorrencias]>>
            ELSE <<>>)
        \o <<[tipo |-> "Consulte WCAG 2.2 e ABNT NBR 17225:2025"]>>

\* _gerar_recomendacoes_priorizadas.  A line is a record of its kind and the
\* values its text embeds.
GerarRecomendacoesPriorizadas(lista) ==
    LET criticos == Contar(lista, LAMBDA p : p.severidade = "CRITICO")
        graves == Contar(lista, LAMBDA p : p.severidade = "GRAVE")
        nivel_a == Contar(lista, LAMBDA p : p.nivel_wcag = "A")
    IN  (IF criticos > 0
         THEN <<[tipo |-> "PRIORIDADE CRITICA", n |-> criticos]>> ELSE <<>>)
        \o (IF graves > 0
            THEN <<[tipo |-> "PRIORIDADE ALTA", n |-> graves]>> ELSE <<>>)
        \o (IF lista # <<>>
            THEN <<[tipo |-> "Categoria com mais problemas",
                    categoria |-> CategoriaMaisProblemas(lista).categoria,
                    n |-> CategoriaMaisProblemas(lista).ocorrencias]>>
            ELSE <<>>)
        \o (IF nivel_a > 0
            THEN <<[tipo |-> "violacoes do Nivel A", n |-> nivel_a]>> ELSE <<>>)
        \o <<[tipo |-> "Consulte WCAG 2.2 e ABNT NBR 17225:2025"]>>

\* The keys of criterios_abnt.
CriteriosAbnt ==
    {"5.1 - Alternativas em texto", "5.3 - Estrutura semantica",
     "6.1 - Navegacao por teclado", "8.2 - Identificacao de campos"}

\* problema.referencia_abnt.split('-')[0].strip()
CriterioBase(referencia_abnt) ==
    Strip(SplitPrimeiro(Chars(referencia_abnt), "-"))

\* The keys that a finding's referencia_abnt marks: criterio_base in key
ChavesMarcadas(referencia_abnt) ==
    IF referencia_abnt = "" THEN {}
    ELSE {key \in CriteriosAbnt :
             Contem(CriterioBase(referencia_abnt), Chars(key))}

\* _avaliar_conformidade where Nivel AA looks at the findings of level AA
\* only: AA is then true of a page that fails level A, against C3.
AvaliarConformidadeAASozinho(lista) ==
    [wcag |->
        ("Nivel A" :> (Contar(lista, LAMBDA p : p.nivel_wcag = "A") = 0))
        @@ ("Nivel AA" :> (Contar(lista, LAMBDA p : p.nivel_wcag = "AA") = 0))
        @@ ("Nivel AAA" :> FALSE),
     abnt |->
        [key \in CriteriosAbnt |->
            ~\E i \in 1..Len(lista) :
                key \in ChavesMarcadas(lista[i].referencia_abnt)]]

\* _avaliar_conformidade: (conformidade_wcag, criterios_abnt)
AvaliarConformidade(lista) ==
    LET problemas_nivel_a == Contar(lista, LAMBDA p : p.nivel_wcag = "A")
        problemas_nivel_aa == Contar(lista, LAMBDA p : p.nivel_wcag = "AA")
    IN  [wcag |->
            ("Nivel A" :> (problemas_nivel_a = 0))
            @@ ("Nivel AA" :> (problemas_nivel_a = 0 /\ problemas_nivel_aa = 0))
            @@ ("Nivel AAA" :> FALSE),
         abnt |->
            [key \in CriteriosAbnt |->
                ~\E i \in 1..Len(lista) :
                    key \in ChavesMarcadas(lista[i].referencia_abnt)]]

\* problemas_por_severidade where the entry 'Grave' counts the findings of
\* severity CRITICO: the entries no longer are the counts C9 states.
ProblemasPorSeveridadeRepetido(lista) ==
    [k \in {ValorSeveridade(s) : s \in SeveridadeProblema} |->
        Contar(lista, LAMBDA p :
            ValorSeveridade(p.severidade) = (IF k = "Grave" THEN "Critico" ELSE k))]

\* problemas_por_severidade of _gerar_relatorio
ProblemasPorSeveridade(lista) ==
    [k \in {ValorSeveridade(s) : s \in SeveridadeProblema} |->
        Contar(lista, LAMBDA p : ValorSeveridade(p.severidade) = k)]

\* _gerar_relatorio: the report of the list object ref, whose content is
\* lista.  data_avaliacao (the wall clock) is left out.
GerarRelatorio(u, ref, lista) ==
    [url |-> u,
     pontuacao_geral |-> CalcularPontuacao(lista),
     total_problemas |-> Len(lista),
     problemas_por_severidade |-> ProblemasPorSeveridade(lista),
     problemas |-> ref,
     recomendacoes_priorizadas |-> GerarRecomendacoesPriorizadas(lista),
     conformidade_wcag |-> AvaliarConformidade(lista).wcag,
     conformidade_abnt |-> AvaliarConformidade(lista).abnt]

\* An empty dict.
DictVazio == [k \in {} |-> 0]

\* _gerar_relatorio_erro without the recommendation line: the report does
\* not carry the failure description C6 states.
GerarRelatorioErroSemDescricao(u, erro, ref) ==
    [url |-> u,
     pontuacao_geral |-> 0,
     total_problemas |-> 0,
     problemas_por_severidade |-> DictVazio,
     problemas |-> ref,
     recomendacoes_priorizadas |-> <<>>,
     conformidade_wcag |-> DictVazio,
     conformidade_abnt |-> DictVazio]

\* _gerar_relatorio_erro: ref is the new, empty list it creates.
GerarRelatorioErro(u, erro, ref) ==
    [url |-> u,
     pontuacao_geral |-> 0,
     total_problemas |-> 0,
     problemas_por_severidade |-> DictVazio,
     problemas |-> ref,
     recomendacoes_priorizadas |-> <<[tipo |-> "Erro ao avaliar", erro |-> erro]>>,
     conformidade_wcag |-> DictVazio,
     conformidade_abnt |-> DictVazio]

\* ---------------------------------------------------------- state machine

\* The callers of avaliar_website on the one agent.  Spec runs the calls of
\* the first, one after the other, each made after the caller has let go of
\* the report of the call before.
Threads == {"t1", "t2"}

Chamadores == {"t1"}

\* The address each caller passes.
UrlDe(t) == IF t = "t1" THEN "https://a.example" ELSE "https://b.example"

Urls == {UrlDe(t) : t \in Threads}

\* The list objects: the agent's, one per caller's report, one being created.
Refs == 1..(Cardinality(Threads) + 2)

\* str(e) of what requests.get and raise_for_status raise
ErrosDeBusca == {"ConnectionError", "HTTPError", "Timeout"}

\* str(e) of a fault raised by the parser, by a rule or by the report assembly
ErroInterno == "RuntimeError"

\* No document: the value of soup before the first parse (None).
SemDocumento == [cab |-> "None", bloco |-> "nenhum", copias |-> 0]

\* No report: the caller has not received one yet.
SemRelatorio == [url |-> "None"]

\* The list objects that the callers' reports refer to.
Retidos(rel) == {rel[t].problemas : t \in {x \in Threads : rel[x] # SemRelatorio}}

\* The list objects that the agent or a caller's report refers to.
Vivos(p, rel) == {p} \cup Retidos(rel)

\* The heap without the objects nothing refers to.
Coletar(h, vivos) == [r \in Refs |-> IF r \in vivos THEN h[r] ELSE <<>>]

\* A list object that is not in use.
NovoRef(vivos) == CHOOSE r \in Refs : r \notin vivos /\ \A q \in Refs \ vivos : r <= q

\* avaliar_website with self.problemas.clear() for line 98: the list object
\* stays the same and loses its findings, and with it every report that
\* refers to it, against C11.
ReiniciarEsvaziando(h, p, rel) ==
    [problemas |-> p, heap |-> [h EXCEPT ![p] = <<>>]]

\* avaliar_website without line 98: the field keeps the list of the call
\* before, whose findings then reach the next report, against C10.
ReiniciarSemNovaLista(h, p, rel) ==
    [problemas |-> p, heap |-> Coletar(h, Vivos(p, rel))]

\* self.problemas = [] (line 98): the field refers to a new empty list, and
\* the list it referred to stays only if a report refers to it.
Reiniciar(h, p, rel) ==
    [problemas |-> NovoRef(Retidos(rel)),
     heap |-> Coletar([h EXCEPT ![NovoRef(Retidos(rel))] = <<>>],
                      Vivos(NovoRef(Retidos(rel)), rel))]

\* A try block that holds the fetch only: a fault of a later stage reaches
\* the caller, against C7.
SoBuscaDentroDoTry(estagio) == estagio = "fetch"

\* The stages of avaliar_website that stand inside its try block
\* (lines 100-121), whose exceptions the except clause catches.
DentroDoTry(estagio) == estagio \in {"fetch", "parse", "regra", "relatorio"}

\* Nothing written yet to the console or to a file.
SemSaida == [canal |-> "nenhum"]

TypeOK ==
    /\ url \in Urls \cup {""}
    /\ problemas \in Refs
    /\ soup \in Documentos \cup {SemDocumento}
    /\ \A r \in Refs : \A i \in 1..Len(heap[r]) :
          /\ heap[r][i].severidade \in SeveridadeProblema
          /\ heap[r][i].nivel_wcag \in NivelConformidade
    /\ pc \in [Threads -> {"idle", "fetch", "parse", "regras", "relatorio", "propagou"}]
    /\ regra \in [Threads -> 0..NumRegras]
    /\ resposta \in [Threads -> Documentos \cup {SemDocumento}]
    /\ desfecho \in [Threads -> {"nenhum", "normal", "erro-fetch", "erro-parse",
                                 "erro-regra", "erro-relatorio"}]
    /\ \A t \in Threads : \A i \in 1..Len(executadas[t]) : executadas[t][i] \in Regras
    /\ anterior \in [Threads -> {"nenhuma", "normal", "erro-sem-achados",
                                 "erro-com-achados"}]
    /\ pagina \in [Threads -> Documentos \cup {SemDocumento}]
    /\ saida = SemSaida \/ saida.canal \in {"json", "stdout"}

\* __init__ (lines 69-72), and no call made yet.
Init ==
    /\ url = ""
    /\ problemas = 1
    /\ soup = SemDocumento
    /\ heap = [r \in Refs |-> <<>>]
    /\ pc = [t \in Threads |-> "idle"]
    /\ regra = [t \in Threads |-> 0]
    /\ resposta = [t \in Threads |-> SemDocumento]
    /\ relatorio = [t \in Threads |-> SemRelatorio]
    /\ desfecho = [t \in Threads |-> "nenhum"]
    /\ executadas = [t \in Threads |-> <<>>]
    /\ emitidos = [t \in Threads |-> <<>>]
    /\ anterior = [t \in Threads |-> "nenhuma"]
    /\ pagina = [t \in Threads |-> SemDocumento]
    /\ saida = SemSaida

\* How the last call of t ended: not at all, with the normal report, or
\* with the error report before or after a rule had appended a finding.
ComoTerminou(t) ==
    IF desfecho[t] = "nenhum" THEN "nenhuma"
    ELSE IF desfecho[t] = "normal" THEN "normal"
    ELSE IF emitidos[t] = <<>> THEN "erro-sem-achados"
    ELSE "erro-com-achados"

\* avaliar_website, lines 97-98: the caller t passes its address.  The
\* caller either still holds the report of its previous call (reter) or
\* has let go of it.
Iniciar(t, reter) ==
    LET rel == IF reter THEN relatorio ELSE [relatorio EXCEPT ![t] = SemRelatorio]
    IN  /\ pc[t] = "idle"
        /\ url' = UrlDe(t)
        /\ problemas' = Reiniciar(heap, problemas, rel).problemas
        /\ heap' = Reiniciar(heap, problemas, rel).heap
        /\ relatorio' = rel
        /\ desfecho' = IF reter THEN desfecho ELSE [desfecho EXCEPT ![t] = "nenhum"]
        /\ pc' = [pc EXCEPT ![t] = "fetch"]
        /\ executadas' = [executadas EXCEPT ![t] = <<>>]
        /\ emitidos' = [emitidos EXCEPT ![t] = <<>>]
        /\ anterior' = [anterior EXCEPT ![t] = ComoTerminou(t)]
        /\ pagina' = [pagina EXCEPT ![t] = SemDocumento]
        /\ UNCHANGED <<soup, regra, resposta, saida>>

\* The except clause with an error report that takes problemas=self.problemas:
\* the findings appended before the fault stay in the report, against C5.
ExcecaoComALista(t, estagio, erro, h) ==
    /\ relatorio' = [relatorio EXCEPT ![t] = GerarRelatorioErro(url, erro, problemas)]
    /\ heap' = Coletar(h, Vivos(problemas, [relatorio EXCEPT ![t] = SemRelatorio]))
    /\ pc' = [pc EXCEPT ![t] = "idle"]
    /\ desfecho' = [desfecho EXCEPT ![t] = "erro-" \o estagio]
    /\ resposta' = [resposta EXCEPT ![t] = SemDocumento]

\* An exception raised at a stage of the call of t, with str(e) = erro
\* (lines 123-125): inside the try block the call returns the error report;
\* outside it the exception reaches the caller.  The local response is gone
\* either way.
Excecao(t, estagio, erro, h) ==
    IF DentroDoTry(estagio)
    THEN LET rel == [relatorio EXCEPT ![t] = SemRelatorio]
             r == NovoRef(Vivos(problemas, rel))
             novo == [rel EXCEPT ![t] = GerarRelatorioErro(url, erro, r)]
         IN  /\ relatorio' = novo
             /\ heap' = Coletar([h EXCEPT ![r] = <<>>], Vivos(problemas, novo))
             /\ pc' = [pc EXCEPT ![t] = "idle"]
             /\ desfecho' = [desfecho EXCEPT ![t] = "erro-" \o estagio]
             /\ resposta' = [resposta EXCEPT ![t] = SemDocumento]
    ELSE /\ pc' = [pc EXCEPT ![t] = "propagou"]
         /\ heap' = h
         /\ resposta' = [resposta EXCEPT ![t] = SemDocumento]
         /\ UNCHANGED <<relatorio, desfecho>>

\* Lines 102-103: the fetch answers with a document.
Buscar(t, d) ==
    /\ pc[t] = "fetch"
    /\ resposta' = [resposta EXCEPT ![t] = d]
    /\ pagina' = [pagina EXCEPT ![t] = d]
    /\ pc' = [pc EXCEPT ![t] = "parse"]
    /\ UNCHANGED <<anterior, saida, url, problemas, soup, heap, regra, relatorio, desfecho,
                   executadas, emitidos>>

\* Lines 102-103: the fetch fails (network failure, error status, timeout).
BuscarFalha(t, erro) ==
    /\ pc[t] = "fetch"
    /\ Excecao(t, "fetch", erro, heap)
    /\ UNCHANGED <<anterior, pagina, saida, url, problemas, soup, regra, executadas, emitidos>>

\* Line 104: the answer is parsed into self.soup.
Analisar(t) ==
    /\ pc[t] = "parse"
    /\ soup' = resposta[t]
    /\ pc' = [pc EXCEPT ![t] = "regras"]
    /\ regra' = [regra EXCEPT ![t] = 1]
    /\ UNCHANGED <<anterior, pagina, saida, url, problemas, heap, resposta, relatorio, desfecho,
                   executadas, emitidos>>

\* Line 104: the parser raises.
AnalisarFalha(t) ==
    /\ pc[t] = "parse"
    /\ Excecao(t, "parse", ErroInterno, heap)
    /\ UNCHANGED <<anterior, pagina, saida, url, problemas, soup, regra, executadas, emitidos>>

\* Lines 107-118: the next rule runs on self.soup and appends its findings
\* to self.problemas.
ExecutarRegra(t) ==
    /\ pc[t] = "regras"
    /\ soup # SemDocumento
    /\ \E achados \in {AchadosDaRegra(soup, regra[t])} :
          /\ heap' = [heap EXCEPT ![problemas] = @ \o achados]
          /\ emitidos' = [emitidos EXCEPT ![t] = @ \o achados]
    /\ executadas' = [executadas EXCEPT ![t] = Append(@, regra[t])]
    /\ IF regra[t] < NumRegras
       THEN /\ regra' = [regra EXCEPT ![t] = @ + 1]
            /\ pc' = pc
       ELSE /\ regra' = [regra EXCEPT ![t] = 0]
            /\ pc' = [pc EXCEPT ![t] = "relatorio"]
    /\ UNCHANGED <<anterior, pagina, saida, url, problemas, soup, resposta, relatorio, desfecho>>

\* The largest number of findings a rule has appended when it raises.
MaxParcial == 2

\* Lines 107-118: the next rule raises after appending the first k of its
\* findings.
ExecutarRegraFalha(t) ==
    /\ pc[t] = "regras"
    /\ soup # SemDocumento
    /\ \E achados \in {AchadosDaRegra(soup, regra[t])} :
          \E k \in 0..MaxParcial :
             /\ k <= Len(achados)
             /\ Excecao(t, "regra", ErroInterno,
                        [heap EXCEPT ![problemas] = @ \o SubSeq(achados, 1, k)])
             /\ emitidos' = [emitidos EXCEPT ![t] = @ \o SubSeq(achados, 1, k)]
    /\ executadas' = [executadas EXCEPT ![t] = Append(@, regra[t])]
    /\ regra' = [regra EXCEPT ![t] = 0]
    /\ UNCHANGED <<anterior, pagina, saida, url, problemas, soup>>

\* Line 121: the report is built from self.problemas and returned.
Relatar(t) ==
    /\ pc[t] = "relatorio"
    /\ LET novo == [relatorio EXCEPT
                       ![t] = GerarRelatorio(url, problemas, heap[problemas])]
       IN  /\ relatorio' = novo
           /\ heap' = Coletar(heap, Vivos(problemas, novo))
    /\ pc' = [pc EXCEPT ![t] = "idle"]
    /\ desfecho' = [desfecho EXCEPT ![t] = "normal"]
    /\ resposta' = [resposta EXCEPT ![t] = SemDocumento]
    /\ UNCHANGED <<anterior, pagina, saida, url, problemas, soup, regra, executadas, emitidos>>

\* Line 121: the report assembly raises.
RelatarFalha(t) ==
    /\ pc[t] = "relatorio"
    /\ Excecao(t, "relatorio", ErroInterno, heap)
    /\ UNCHANGED <<anterior, pagina, saida, url, problemas, soup, regra, executadas, emitidos>>

Next ==
    \E t \in Chamadores :
        \/ Iniciar(t, FALSE)
        \/ \E d \in Documentos : Buscar(t, d)
        \/ \E erro \in ErrosDeBusca : BuscarFalha(t, erro)
        \/ Analisar(t)
        \/ AnalisarFalha(t)
        \/ ExecutarRegra(t)
        \/ ExecutarRegraFalha(t)
        \/ Relatar(t)
        \/ RelatarFalha(t)

Spec == Init /\ [][Next]_vars

\* ------------------------------------------------- sequential use, output

\* exportar_relatorio_json: the report of t is written to a file; the
\* file holds the report's numbers and one entry per finding of its list.
Exportar(t) ==
    /\ pc[t] = "idle"
    /\ relatorio[t] # SemRelatorio
    /\ saida' = [canal |-> "json",
                 pontuacao_geral |-> relatorio[t].pontuacao_geral,
                 total_problemas |-> relatorio[t].total_problemas,
                 listados |-> Len(heap[relatorio[t].problemas])]
    /\ UNCHANGED <<url, problemas, soup, heap, pc, regra, resposta, relatorio,
                   desfecho, executadas, emitidos, anterior, pagina>>

\* imprimir_relatorio: the report of t is printed; the first ten findings
\* of its list are listed.
Imprimir(t) ==
    /\ pc[t] = "idle"
    /\ relatorio[t] # SemRelatorio
    /\ saida' = [canal |-> "stdout",
                 pontuacao_geral |-> relatorio[t].pontuacao_geral,
                 total_problemas |-> relatorio[t].total_problemas,
                 listados |-> Min(Len(heap[relatorio[t].problemas]), 10)]
    /\ UNCHANGED <<url, problemas, soup, heap, pc, regra, resposta, relatorio,
                   desfecho, executadas, emitidos, anterior, pagina>>

\* The documents of the runs that keep reports.
DocumentosDeEnsaio ==
    {[cab |-> "limpa", bloco |-> "nenhum", copias |-> 1],
     [cab |-> "vazia", bloco |-> "imagens", copias |-> 1],
     [cab |-> "limpa", bloco |-> "multimidia", copias |-> 1]}

\* No call is running.
Ocioso == \A t \in Threads : pc[t] = "idle"

\* The caller keeps the report of its last call until its next call
\* returns; between calls it may print or export the report.
NextSequencial ==
    \E t \in Chamadores :
        \/ Iniciar(t, TRUE)
        \/ \E d \in DocumentosDeEnsaio : Buscar(t, d)
        \/ \E erro \in ErrosDeBusca : BuscarFalha(t, erro)
        \/ Analisar(t)
        \/ AnalisarFalha(t)
        \/ ExecutarRegra(t)
        \/ ExecutarRegraFalha(t)
        \/ Relatar(t)
        \/ RelatarFalha(t)
        \/ Exportar(t)
        \/ Imprimir(t)

SpecSequencial == Init /\ [][NextSequencial]_vars

\* Two callers use the one agent, one call at a time, and each keeps the
\* report of its last call.
NextDuasVezes ==
    \E t \in Threads :
        \/ Ocioso /\ Iniciar(t, TRUE)
        \/ \E d \in DocumentosDeEnsaio : Buscar(t, d)
        \/ Analisar(t)
        \/ ExecutarRegra(t)
        \/ Relatar(t)
        \/ RelatarFalha(t)

SpecDuasVezes == Init /\ [][NextDuasVezes]_vars

\* ------------------------------------------------------- concurrent use

\* The document served at each address.
PaginaDe(u) ==
    IF u = "https://a.example"
    THEN [cab |-> "limpa", bloco |-> "imagens", copias |-> 1]
    ELSE [cab |-> "limpa", bloco |-> "nenhum", copias |-> 1]

\* Two threads call avaliar_website on the one agent at the same time, each
\* once and with its own address; the steps of the two calls interleave.
NextConcorrente ==
    \E t \in Threads :
        \/ desfecho[t] = "nenhum" /\ Iniciar(t, FALSE)
        \/ Buscar(t, PaginaDe(UrlDe(t)))
        \/ Analisar(t)
        \/ ExecutarRegra(t)
        \/ Relatar(t)

SpecConcorrente == Init /\ [][NextConcorrente]_vars

\* ------------------------------------------------------------ properties

\* The caller t holds the report of a call that ended at line 121.
Normal(t) == relatorio[t] # SemRelatorio /\ desfecho[t] = "normal"

\* The caller t holds the report of a call that ended in the except clause.
DeErro(t) == relatorio[t] # SemRelatorio /\ desfecho[t] \notin {"nenhum", "normal"}

\* The findings of the report the caller t holds.
AchadosDoRelatorio(t) == heap[relatorio[t].problemas]

\* The report is the one _gerar_relatorio_erro builds.
EhRelatorioDeErro(rel) ==
    /\ Len(rel.recomendacoes_priorizadas) = 1
    /\ rel.recomendacoes_priorizadas[1].tipo = "Erro ao avaliar"

\* How many findings of the list have the severity.
Quantos(lista, sev) == Cardinality({i \in 1..Len(lista) : lista[i].severidade = sev})

SomaDosPesos(lista) ==
    10 * Quantos(lista, "CRITICO") + 5 * Quantos(lista, "GRAVE")
    + 2 * Quantos(lista, "MODERADO") + Quantos(lista, "LEVE")

Limitar(x) == IF x < 0 THEN 0 ELSE IF x > 100 THEN 100 ELSE x

\* C1: of every list of findings the agent accumulates, _calcular_pontuacao
\* gives 100 less the sum of the weights (CRITICO 10, GRAVE 5, MODERADO 2,
\* LEVE 1) of all its findings, equal ones counted each, limited to 0..100;
\* and that is the score of every report of _gerar_relatorio.
C1_PontuacaoDeduzida ==
    /\ \A r \in Refs :
          CalcularPontuacao(heap[r]) = Limitar(100 - SomaDosPesos(heap[r]))
    /\ \A t \in Threads :
          Normal(t) =>
             relatorio[t].pontuacao_geral
                = Limitar(100 - SomaDosPesos(AchadosDoRelatorio(t)))

\* A report whose findings weigh more than 100 and hold the same finding
\* twice: the score is 0.
C1_Witness ==
    \E t \in Threads :
        /\ Normal(t)
        /\ SomaDosPesos(AchadosDoRelatorio(t)) > 100
        /\ relatorio[t].pontuacao_geral = 0
        /\ \E i, j \in 1..Len(AchadosDoRelatorio(t)) :
              i < j /\ AchadosDoRelatorio(t)[i] = AchadosDoRelatorio(t)[j]

\* A finding of the severity.
UmAchado(sev) ==
    ProblemaAcessibilidade("0.0.0 - Outro", sev, "A", [markup |-> "", tam |-> 0], "")

\* C2: the score of every list of findings is in 0..100, so is the score
\* of every report, and one more finding of any severity never gives a
\* higher score.
C2_PontuacaoLimitadaEMonotona ==
    /\ \A r \in Refs :
          /\ CalcularPontuacao(heap[r]) \in 0..100
          /\ \A sev \in SeveridadeProblema :
                CalcularPontuacao(Append(heap[r], UmAchado(sev)))
                   <= CalcularPontuacao(heap[r])
    /\ \A t \in Threads :
          relatorio[t] # SemRelatorio => relatorio[t].pontuacao_geral \in 0..100

\* A list whose score is strictly between 0 and 10: one more finding of
\* severity LEVE lowers the score, one more of severity CRITICO weighs more
\* than what is left and gives 0.
C2_Witness ==
    \E r \in Refs :
        /\ CalcularPontuacao(heap[r]) \in 1..9
        /\ CalcularPontuacao(Append(heap[r], UmAchado("LEVE")))
              < CalcularPontuacao(heap[r])
        /\ CalcularPontuacao(Append(heap[r], UmAchado("CRITICO"))) = 0

\* No finding of the list has the level.
SemNivel(lista, nivel) == \A i \in 1..Len(lista) : lista[i].nivel_wcag # nivel

\* C3: in every report of _gerar_relatorio, Nivel A is true exactly if no
\* finding has level A, Nivel AA is true exactly if Nivel A is true and no
\* finding has level AA, and Nivel AAA is false.
C3_ConformidadeWcag ==
    \A t \in Threads :
        Normal(t) =>
           /\ relatorio[t].conformidade_wcag["Nivel A"]
                 = SemNivel(AchadosDoRelatorio(t), "A")
           /\ relatorio[t].conformidade_wcag["Nivel AA"]
                 = (/\ relatorio[t].conformidade_wcag["Nivel A"]
                    /\ SemNivel(AchadosDoRelatorio(t), "AA"))
           /\ relatorio[t].conformidade_wcag["Nivel AAA"] = FALSE

\* A report with a finding of level AAA and none of the levels A and AA:
\* Nivel A and Nivel AA are true.
C3_Witness ==
    \E t \in Threads :
        /\ Normal(t)
        /\ ~SemNivel(AchadosDoRelatorio(t), "AAA")
        /\ relatorio[t].conformidade_wcag["Nivel A"]
        /\ relatorio[t].conformidade_wcag["Nivel AA"]

\* C4: when the rules of a call raise no finding, the report has the score
\* 100, Nivel A and Nivel AA true and Nivel AAA false.
C4_SemAchados ==
    \A t \in Threads :
        Normal(t) /\ emitidos[t] = <<>> =>
           /\ relatorio[t].pontuacao_geral = 100
           /\ relatorio[t].conformidade_wcag["Nivel A"] = TRUE
           /\ relatorio[t].conformidade_wcag["Nivel AA"] = TRUE
           /\ relatorio[t].conformidade_wcag["Nivel AAA"] = FALSE

\* The twelve rules ran on a page and raised nothing.
C4_Witness ==
    \E t \in Threads :
        /\ Normal(t)
        /\ Len(executadas[t]) = NumRegras
        /\ emitidos[t] = <<>>
        /\ relatorio[t].total_problemas = 0

\* The last call of t ended because a rule raised.
RegraFalhou(t) == relatorio[t] # SemRelatorio /\ desfecho[t] = "erro-regra"

C6_FalhaDeBusca ==
    \A t \in Threads :
        relatorio[t] # SemRelatorio /\ desfecho[t] = "erro-fetch" =>
           /\ executadas[t] = <<>>
           /\ emitidos[t] = <<>>
           /\ relatorio[t].pontuacao_geral = 0
           /\ AchadosDoRelatorio(t) = <<>>
           /\ relatorio[t].total_problemas = 0
           /\ Len(relatorio[t].recomendacoes_priorizadas) = 1
           /\ relatorio[t].recomendacoes_priorizadas[1].tipo = "Erro ao avaliar"
           /\ relatorio[t].recomendacoes_priorizadas[1].erro \in ErrosDeBusca

\* The fetch timed out in a call made after a call that had parsed a page.
C6_Witness ==
    \E t \in Threads :
        /\ relatorio[t] # SemRelatorio
        /\ desfecho[t] = "erro-fetch"
        /\ relatorio[t].recomendacoes_priorizadas[1].erro = "Timeout"
        /\ soup # SemDocumento

\* The steps the call of t has yet to take, at most.
Restante(t) ==
    CASE pc[t] = "fetch" -> NumRegras + 3
      [] pc[t] = "parse" -> NumRegras + 2
      [] pc[t] = "regras" -> NumRegras + 2 - regra[t]
      [] pc[t] = "relatorio" -> 1
      [] OTHER -> 0

\* C7: no fault of a call reaches the caller, a caller whose call is over
\* holds a report, and every step of a call leaves fewer steps to take, so
\* that the call ends.
C7_SempreDevolveRelatorio ==
    /\ [](\A t \in Threads :
            /\ pc[t] # "propagou"
            /\ pc[t] = "idle" => (relatorio[t] # SemRelatorio \/ desfecho[t] = "nenhum")
            /\ pc[t] = "idle" /\ relatorio[t] = SemRelatorio => anterior[t] = "nenhuma")
    /\ [][\A t \in Threads : pc[t] # "idle" => Restante(t)' < Restante(t)]_vars

\* Calls that ended with a report after the parser, a rule and the report
\* assembly raised.
C7_Witness ==
    \E t \in Threads :
        /\ pc[t] = "idle"
        /\ relatorio[t] # SemRelatorio
        /\ desfecho[t] = "erro-relatorio"
        /\ anterior[t] = "erro-com-achados"

\* C8 as the claim states it: every report has the four severity keys in
\* problemas_por_severidade and the three level keys in conformidade_wcag.
C8_ChavesSemprePresentes ==
    \A t \in Threads :
        relatorio[t] # SemRelatorio =>
           /\ DOMAIN relatorio[t].problemas_por_severidade
                 = {"Critico", "Grave", "Moderado", "Leve"}
           /\ DOMAIN relatorio[t].conformidade_wcag
                 = {"Nivel A", "Nivel AA", "Nivel AAA"}

\* The sum of the entries of a dict of counts.
RECURSIVE SomaDasContagens(_)
SomaDasContagens(contagens) ==
    IF DOMAIN contagens = {} THEN 0
    ELSE (LET k == CHOOSE x \in DOMAIN contagens : TRUE
          IN  contagens[k]
              + SomaDasContagens([x \in DOMAIN contagens \ {k} |-> contagens[x]]))

\* C9: in every report, total_problemas is the length of the findings,
\* each entry of problemas_por_severidade is the number of findings of that
\* severity, and the entries add up to total_problemas.
C9_ContagensCoerentes ==
    \A t \in Threads :
        relatorio[t] # SemRelatorio =>
           /\ relatorio[t].total_problemas = Len(AchadosDoRelatorio(t))
           /\ \A k \in DOMAIN relatorio[t].problemas_por_severidade :
                 relatorio[t].problemas_por_severidade[k]
                    = Cardinality({i \in 1..Len(AchadosDoRelatorio(t)) :
                         ValorSeveridade(AchadosDoRelatorio(t)[i].severidade) = k})
           /\ SomaDasContagens(relatorio[t].problemas_por_severidade)
                 = relatorio[t].total_problemas

\* A report with findings of all four severities.
C9_Witness ==
    \E t \in Threads :
        /\ Normal(t)
        /\ \A k \in {"Critico", "Grave", "Moderado", "Leve"} :
              relatorio[t].problemas_por_severidade[k] > 0

Devolve(t) == pc[t] # "idle" /\ pc'[t] = "idle"

\* C11: a report that a caller holds never changes: no step of a later call
\* (successful or failing), and no printing or exporting, changes its
\* fields or the findings of its list, although that list was the agent's
\* list when the call returned; the report keeps agreeing with its list.
C11_RelatorioImutavel ==
    /\ [](\A t \in Threads :
            relatorio[t] # SemRelatorio =>
               /\ relatorio[t].total_problemas = Len(AchadosDoRelatorio(t))
               /\ ~EhRelatorioDeErro(relatorio[t]) =>
                     relatorio[t].pontuacao_geral
                        = CalcularPontuacao(AchadosDoRelatorio(t)))
    /\ [][\A t \in Threads :
            relatorio[t] # SemRelatorio /\ ~Devolve(t) =>
               /\ relatorio'[t] = relatorio[t]
               /\ heap'[relatorio[t].problemas] = heap[relatorio[t].problemas]]_vars

\* The caller holds a report with findings, has printed or exported it, and
\* its next call has appended findings to the agent's list, which is
\* another list.
C11_Witness ==
    \E t \in Threads :
        /\ pc[t] = "regras"
        /\ relatorio[t] # SemRelatorio
        /\ desfecho[t] = "normal"
        /\ AchadosDoRelatorio(t) # <<>>
        /\ relatorio[t].problemas # problemas
        /\ heap[problemas] # <<>>
        /\ heap[problemas] # AchadosDoRelatorio(t)
        /\ saida # SemSaida

\* The findings of the twelve rules on a tree, rule after rule in the order
\* text alternatives, semantic structure, contrast, keyboard, forms,
\* multimedia, page title, language, links, tables, ARIA, viewport.
AchadosDaArvore(arvore) ==
    VerificarAlternativasTexto(arvore)
    \o VerificarEstruturaSemantica(arvore)
    \o VerificarContrasteCores(arvore)
    \o VerificarNavegacaoTeclado(arvore)
    \o VerificarFormularios(arvore)
    \o VerificarMultimedia(arvore)
    \o VerificarTitulosPagina(arvore)
    \o VerificarIdioma(arvore)
    \o VerificarLinks(arvore)
    \o VerificarTabelas(arvore)
    \o VerificarAria(arvore)
    \o VerificarResponsividade(arvore)

\* What a call that evaluates the document d alone reports.
AchadosEmOrdem(d) == AchadosDaArvore(Arvore(d))

\* C12 as the claim states it: under every interleaving of two calls on the
\* one agent, each returned report has the findings, the score and the
\* conformance of the call's own document evaluated alone.
C12_ChamadasIndependentes ==
    \A t \in Threads :
        pc[t] = "idle" /\ Normal(t) =>
           \E sozinho \in {AchadosEmOrdem(pagina[t])} :
              /\ AchadosDoRelatorio(t) = sozinho
              /\ relatorio[t].pontuacao_geral = CalcularPontuacao(sozinho)
              /\ relatorio[t].conformidade_wcag = AvaliarConformidade(sozinho).wcag

\* The rules 1..n in the order of the calls.
PrimeirasRegras(n) == [i \in 1..n |-> i]

\* C13: a call that returns the normal report has invoked each of the
\* twelve rules once, in the fixed order, and its findings are the rules'
\* findings on its document, rule after rule in that order and each rule's
\* in the order it emits them; the report is assembled only after the
\* twelfth rule, and while the rules run they run in order.
C13_RegrasEmOrdem ==
    \A t \in Threads :
        /\ pc[t] = "idle" /\ Normal(t) =>
              /\ executadas[t] = PrimeirasRegras(NumRegras)
              /\ AchadosDoRelatorio(t) = AchadosEmOrdem(pagina[t])
        /\ pc[t] = "relatorio" => executadas[t] = PrimeirasRegras(NumRegras)
        /\ pc[t] = "regras" =>
              /\ regra[t] \in 1..NumRegras
              /\ executadas[t] = PrimeirasRegras(regra[t] - 1)
              /\ relatorio[t] = SemRelatorio

\* A report whose findings come from the text alternatives rule, then from
\* the semantic structure rule, and last from the viewport rule.
C13_Witness ==
    \E t \in Threads :
        /\ pc[t] = "idle" /\ Normal(t)
        /\ pagina[t] = [cab |-> "vazia", bloco |-> "imagens", copias |-> 1]
        /\ Len(AchadosDoRelatorio(t)) > 3
        /\ AchadosDoRelatorio(t)[1].criterio = "1.1.1 - Alternativas em Texto"
        /\ \E i \in 2..Len(AchadosDoRelatorio(t)) :
              /\ AchadosDoRelatorio(t)[i - 1].criterio = "1.1.1 - Alternativas em Texto"
              /\ AchadosDoRelatorio(t)[i].criterio = "1.3.1 - Estrutura Semantica"
        /\ AchadosDoRelatorio(t)[Len(AchadosDoRelatorio(t))].criterio
              = "1.4.10 - Reflow/Responsividade"

\* C14: two evaluations of the same document give the same report: when
\* two callers hold the normal reports of calls that fetched the same
\* document, the reports have the same findings, score, counts, conformance
\* and recommendations, whatever calls came before each.
C14_Idempotencia ==
    \A a, b \in Threads :
        /\ pc[a] = "idle" /\ Normal(a)
        /\ pc[b] = "idle" /\ Normal(b)
        /\ pagina[a] = pagina[b]
        => /\ AchadosDoRelatorio(a) = AchadosDoRelatorio(b)
           /\ relatorio[a].pontuacao_geral = relatorio[b].pontuacao_geral
           /\ relatorio[a].total_problemas = relatorio[b].total_problemas
           /\ relatorio[a].problemas_por_severidade
                 = relatorio[b].problemas_por_severidade
           /\ relatorio[a].conformidade_wcag = relatorio[b].conformidade_wcag
           /\ relatorio[a].conformidade_abnt = relatorio[b].conformidade_abnt
           /\ relatorio[a].recomendacoes_priorizadas
                 = relatorio[b].recomendacoes_priorizadas

\* Two callers hold the reports of the same document, with findings, in two
\* lists; the second evaluation came after a call that had failed with
\* findings in the agent's list.
C14_Witness ==
    \E a, b \in Threads :
        /\ a # b
        /\ pc[a] = "idle" /\ Normal(a)
        /\ pc[b] = "idle" /\ Normal(b)
        /\ pagina[a] = pagina[b]
        /\ relatorio[a].problemas # relatorio[b].problemas
        /\ AchadosDoRelatorio(a) # <<>>
        /\ anterior[b] = "erro-com-achados"

\* C15 as the claim states it: every finding a rule has appended has an
\* elemento that is not empty and has at most 100 characters.
C15_TrechoLimitado ==
    \A r \in Refs : \A i \in 1..Len(heap[r]) :
        /\ heap[r][i].elemento.markup # ""
        /\ heap[r][i].elemento.tam \in 1..100

\* The place of each kind of line in the priority order.
Prioridade(tipo) ==
    CASE tipo = "PRIORIDADE CRITICA" -> 1
      [] tipo = "PRIORIDADE ALTA" -> 2
      [] tipo = "Categoria com mais problemas" -> 3
      [] tipo = "violacoes do Nivel A" -> 4
      [] tipo = "Consulte WCAG 2.2 e ABNT NBR 17225:2025" -> 5
      [] OTHER -> 0

\* The lines recs of a report of the findings lista, whose categories are
\* cats, are the lines C16 states.
LinhasEmOrdem(recs, lista, cats) ==
    /\ \A i \in 1..Len(recs) : Prioridade(recs[i].tipo) \in 1..5
    /\ \A i \in 1..(Len(recs) - 1) :
          Prioridade(recs[i].tipo) < Prioridade(recs[i + 1].tipo)
    /\ Len(recs) >= 1 /\ Prioridade(recs[Len(recs)].tipo) = 5
    /\ (\E i \in 1..Len(recs) : Prioridade(recs[i].tipo) = 1)
          <=> Quantos(lista, "CRITICO") > 0
    /\ (\E i \in 1..Len(recs) : Prioridade(recs[i].tipo) = 2)
          <=> Quantos(lista, "GRAVE") > 0
    /\ (\E i \in 1..Len(recs) : Prioridade(recs[i].tipo) = 3) <=> lista # <<>>
    /\ (\E i \in 1..Len(recs) : Prioridade(recs[i].tipo) = 4)
          <=> (\E j \in 1..Len(lista) : lista[j].nivel_wcag = "A")
    /\ \A i \in 1..Len(recs) :
          /\ Prioridade(recs[i].tipo) = 1 => recs[i].n = Quantos(lista, "CRITICO")
          /\ Prioridade(recs[i].tipo) = 2 => recs[i].n = Quantos(lista, "GRAVE")
          /\ Prioridade(recs[i].tipo) = 3 =>
                /\ \E j \in 1..Len(cats) : cats[j] = recs[i].categoria
                /\ recs[i].n = Cardinality({j \in 1..Len(cats) :
                                               cats[j] = recs[i].categoria})
                /\ \A k \in 1..Len(cats) :
                      Cardinality({j \in 1..Len(cats) : cats[j] = cats[k]})
                         <= recs[i].n
          /\ Prioridade(recs[i].tipo) = 4 =>
                recs[i].n = Cardinality({j \in 1..Len(lista) :
                                            lista[j].nivel_wcag = "A"})

\* C16: the recommendations of every normal report are, in this order, the
\* Critical line (iff there is a Critical finding, with their number), the
\* Serious line (iff there is a Serious finding, with their number), the
\* line of the most frequent criterion prefix (iff there is a finding), the
\* level A line (iff there is a level A finding, with their number), and
\* the closing line, always present and last.
C16_RecomendacoesEmOrdem ==
    \A t \in Threads :
        pc[t] = "idle" /\ Normal(t) =>
           LinhasEmOrdem(relatorio[t].recomendacoes_priorizadas,
                         AchadosDoRelatorio(t),
                         Categorias(AchadosDoRelatorio(t)))

\* A report with all five lines, whose most frequent prefix is not the
\* prefix of its first finding.
C16_Witness ==
    \E t \in Threads :
        /\ pc[t] = "idle" /\ Normal(t)
        /\ Len(relatorio[t].recomendacoes_priorizadas) = 5
        /\ relatorio[t].recomendacoes_priorizadas[3].categoria
              # Categoria(AchadosDoRelatorio(t)[1].criterio)

\* The image is decorative, in the words of C17: its nearest ancestor link
\* has visible text, or its class attribute holds one of the four words,
\* whatever the case of the letters.
Decorativa(n) ==
    \/ /\ \E i \in 1..Len(n.anc) : n.anc[i].tag = "a"
       /\ LET i == CHOOSE k \in 1..Len(n.anc) :
                      /\ n.anc[k].tag = "a"
                      /\ \A m \in (k + 1)..Len(n.anc) : n.anc[m].tag # "a"
          IN  Strip(GetText(n.anc[i])) # <<>>
    \/ /\ Tem(n.el, "class")
       /\ \E word \in {"icon", "decor", "bg", "background"} :
             Contem(Chars(word), Lower(n.el.at_chars.class))

\* The outcome C17 states for one image: the severity of its one finding,
\* or no finding.
ResultadoDaImagem(n) ==
    IF ~Tem(n.el, "alt") THEN <<"CRITICO">>
    ELSE IF Strip(n.el.at_chars.alt) = <<>> /\ ~Decorativa(n) THEN <<"GRAVE">>
    ELSE <<>>

\* The findings of the images imgs are the first findings of achados: each
\* image has the outcome C17 states, with level A and the image's markup.
RECURSIVE ImagensConferem(_, _)
ImagensConferem(imgs, achados) ==
    IF imgs = <<>>
    THEN \A i \in 1..Len(achados) : achados[i].elemento.markup = "input-imagem"
    ELSE IF ResultadoDaImagem(Head(imgs)) = <<>>
    THEN ImagensConferem(Tail(imgs), achados)
    ELSE /\ achados # <<>>
         /\ Head(achados).severidade = ResultadoDaImagem(Head(imgs))[1]
         /\ Head(achados).nivel_wcag = "A"
         /\ Head(achados).criterio = "1.1.1 - Alternativas em Texto"
         /\ Head(achados).elemento.markup = Head(imgs).el.nome
         /\ ImagensConferem(Tail(imgs), Tail(achados))

\* C17: when the text alternatives rule has run, every img of the document
\* has one Critical/A finding if it has no alt attribute, one Serious/A
\* finding if its alt is empty after trimming and it is not decorative, and
\* no finding otherwise; the findings stand in the order of the images.
C17_AlternativasTexto ==
    \A t \in Threads :
        pc[t] = "regras" /\ executadas[t] = <<1>> =>
           ImagensConferem(FindAll(Arvore(soup), {"img"}), emitidos[t])

\* The rule has run on images of the three kinds: without alt, with an
\* empty alt and not decorative, and with an empty alt and decorative.
C17_Witness ==
    \E t \in Threads :
        /\ pc[t] = "regras" /\ executadas[t] = <<1>>
        /\ soup = [cab |-> "limpa", bloco |-> "imagens", copias |-> 1]
        /\ \E i \in 1..Len(emitidos[t]) : emitidos[t][i].severidade = "CRITICO"
        /\ \E i \in 1..Len(emitidos[t]) : emitidos[t][i].severidade = "GRAVE"
        /\ \A i \in 1..Len(emitidos[t]) :
              emitidos[t][i].elemento.markup \notin {"img-decorativa", "img-em-link", "img-ok"}

\* The field is hidden or button-like.
OcultoOuBotao(e) ==
    Get(e, "type", "text") \in {"hidden", "submit", "button", "image", "reset"}

\* One of the four associations of C18 holds for the field.
Rotulado(n, arvore) ==
    \/ Tem(n.el, "id") /\ ExisteCom(arvore, "label", "for", n.el.at.id)
    \/ TemPai(n, "label")
    \/ Tem(n.el, "aria-label") \/ Tem(n.el, "aria-labelledby")
    \/ Tem(n.el, "title")

\* The markup of the fields that C18 gives a finding, in document order.
CamposSemRotulo(arvore) ==
    LET campos == FindAll(arvore, {"input", "select", "textarea"})
        sem == SelectSeq(campos,
                         LAMBDA n : ~OcultoOuBotao(n.el) /\ ~Rotulado(n, arvore))
    IN  [i \in 1..Len(sem) |-> sem[i].el.nome]

\* The markup of the Critical/A findings of the form rule among achados.
AchadosDeRotulo(achados) ==
    LET sel == SelectSeq(achados,
                   LAMBDA p : /\ p.criterio = "4.1.2 - Nome, Funcao e Valor"
                              /\ p.severidade = "CRITICO"
                              /\ p.nivel_wcag = "A")
    IN  [i \in 1..Len(sel) |-> sel[i].elemento.markup]

\* C18 as the claim states it: when the form rule has run, the fields with
\* a Critical/A finding are the input, select and textarea elements that
\* are neither hidden nor button-like and have no label with their id, no
\* enclosing label, no accessible-name attribute and no title attribute.
C18_CamposSemRotulo ==
    \A t \in Threads :
        pc[t] = "regras" /\ executadas[t] = PrimeirasRegras(5) =>
           AchadosDeRotulo(emitidos[t]) = CamposSemRotulo(Arvore(soup))

\* The property names of the declarations of an inline style: the text
\* before the colon of each declaration, the declarations being separated
\* by semicolons.
RECURSIVE Propriedades(_)
Propriedades(style) ==
    IF style = <<>> THEN {}
    ELSE LET decl == SplitPrimeiro(style, ";")
             resto == IF Len(decl) < Len(style)
                      THEN SubSeq(style, Len(decl) + 2, Len(style))
                      ELSE <<>>
         IN  (IF Contem(<<":">>, decl)
              THEN {Str(Lower(Strip(SplitPrimeiro(decl, ":"))))}
              ELSE {})
             \cup Propriedades(resto)

\* The markup of the elements that C19 flags, in document order: those
\* whose style declares a foreground color and a background color.
ElementosComCorEFundo(arvore) ==
    LET sel == SelectSeq(FindAllAtributo(arvore, "style"),
                   LAMBDA n :
                      /\ "color" \in Propriedades(n.el.at_chars.style)
                      /\ Propriedades(n.el.at_chars.style)
                            \cap {"background", "background-color"} # {})
    IN  [i \in 1..Len(sel) |-> sel[i].el.nome]

\* The markup of the findings of the criterion, severity and level among
\* achados.
MarcadosPor(achados, criterio, severidade, nivel) ==
    LET sel == SelectSeq(achados,
                   LAMBDA p : /\ p.criterio = criterio
                              /\ p.severidade = severidade
                              /\ p.nivel_wcag = nivel)
    IN  [i \in 1..Len(sel) |-> sel[i].elemento.markup]

\* C19 as the claim states it: when the contrast rule has run, the elements
\* with a Moderate/AA contrast finding are those whose inline style has a
\* foreground color declaration and a background color declaration; an
\* element that declares only one of the two has no finding.
C19_ContrasteSoComAmbos ==
    \A t \in Threads :
        pc[t] = "regras" /\ executadas[t] = PrimeirasRegras(3) =>
           MarcadosPor(emitidos[t], "1.4.3 - Contraste de Cores", "MODERADO", "AA")
              = ElementosComCorEFundo(Arvore(soup))

\* The markup of the elements of the tags that carry the attribute, in
\* document order.
ElementosCom(arvore, tags, a) ==
    LET sel == FindAllCom(arvore, tags, a)
    IN  [i \in 1..Len(sel) |-> sel[i].el.nome]

\* The markup of the video elements with no captions track below them.
VideosSemLegenda(arvore) ==
    LET sel == SelectSeq(FindAll(arvore, {"video"}),
                   LAMBDA n :
                      ~\E i \in 1..Len(Descendentes(n.el)) :
                          /\ Descendentes(n.el)[i].el.tag = "track"
                          /\ Get(Descendentes(n.el)[i].el, "kind", "") = "captions")
    IN  [i \in 1..Len(sel) |-> sel[i].el.nome]

\* C20 as the claim states it: when the multimedia rule has run, the video
\* elements without a captions track have one Critical/A finding each, and
\* the video and audio elements that carry the autoplay attribute, with any
\* value or none, have one Serious/A finding each.
C20_Multimidia ==
    \A t \in Threads :
        pc[t] = "regras" /\ executadas[t] = PrimeirasRegras(6) =>
           \E arvore \in {Arvore(soup)} :
              /\ MarcadosPor(emitidos[t], "1.2.2 - Legendas", "CRITICO", "A")
                    = VideosSemLegenda(arvore)
              /\ MarcadosPor(emitidos[t], "1.4.2 - Controle de Audio", "GRAVE", "A")
                    = ElementosCom(arvore, {"video"}, "autoplay")
                      \o ElementosCom(arvore, {"audio"}, "autoplay")

\* cs.split(sep) for a one-character sep, each piece stripped.
RECURSIVE Itens(_, _)
Itens(cs, sep) ==
    LET item == SplitPrimeiro(cs, sep)
    IN  IF Len(item) = Len(cs) THEN <<Strip(cs)>>
        ELSE <<Strip(item)>> \o Itens(SubSeq(cs, Len(item) + 2, Len(cs)), sep)

\* The viewport content locks the scale: one of its comma-separated
\* settings is user-scalable with the value no or 0, or maximum-scale with
\* the value 1.
BloqueiaZoom(content) ==
    \E i \in 1..Len(Itens(content, ",")) :
        \E item \in {Lower(Itens(content, ",")[i])} :
            \E chave \in {Str(Strip(SplitPrimeiro(item, "=")))} :
                \E valor \in {IF Len(SplitPrimeiro(item, "=")) < Len(item)
                              THEN Str(Strip(SubSeq(item,
                                       Len(SplitPrimeiro(item, "=")) + 2, Len(item))))
                              ELSE ""} :
                    \/ chave = "user-scalable" /\ valor \in {"no", "0"}
                    \/ chave = "maximum-scale" /\ valor \in {"1", "1.0"}

\* The viewport meta elements of the document, in document order.
MetasViewport(arvore) ==
    SelectSeq(FindAll(arvore, {"meta"}), LAMBDA n : Get(n.el, "name", "") = "viewport")

\* The severity and level of the findings among achados that the viewport
\* rule emits, in order.
AchadosDeViewport(achados) ==
    LET sel == SelectSeq(achados,
                   LAMBDA p : p.criterio \in {"1.4.10 - Reflow/Responsividade",
                                              "1.4.4 - Redimensionamento de Texto"})
    IN  [i \in 1..Len(sel) |-> <<sel[i].severidade, sel[i].nivel_wcag>>]

\* C21 as the claim states it: when the viewport rule has run, it has
\* emitted one Serious/AA finding if the document has no viewport meta, one
\* Critical/AA finding if the viewport content locks the scale, and nothing
\* if the viewport allows zoom.
C21_Viewport ==
    \A t \in Threads :
        pc[t] = "relatorio" /\ executadas[t] = PrimeirasRegras(12) =>
           \E metas \in {MetasViewport(Arvore(soup))} :
              AchadosDeViewport(emitidos[t]) =
                 IF metas = <<>> THEN <<<<"GRAVE", "AA">>>>
                 ELSE IF BloqueiaZoom(GetChars(metas[1].el, "content"))
                      THEN <<<<"CRITICO", "AA">>>>
                      ELSE <<>>

\* The text before the first '-' of each finding's criterion, in the order
\* of the findings.
Prefixos(lista) ==
    [i \in 1..Len(lista) |-> Str(Strip(SplitPrimeiro(Chars(lista[i].criterio), "-")))]

\* How many findings have the prefix, and where its first finding stands.
ContagemDe(prefixos, c) == Cardinality({i \in 1..Len(prefixos) : prefixos[i] = c})

PrimeiroDe(prefixos, c) ==
    CHOOSE i \in 1..Len(prefixos) :
        prefixos[i] = c /\ \A j \in 1..(i - 1) : prefixos[j] # c

\* The category lines of the recommendations.
LinhasDeCategoria(recs) ==
    SelectSeq(recs, LAMBDA r : r.tipo = "Categoria com mais problemas")

\* The line reports the prefix c with the count n as C22 states it.
CategoriaCerta(prefixos, c, n) ==
    /\ \E i \in 1..Len(prefixos) : prefixos[i] = c
    /\ n = ContagemDe(prefixos, c)
    /\ \A i \in 1..Len(prefixos) :
          \/ ContagemDe(prefixos, prefixos[i]) < n
          \/ /\ ContagemDe(prefixos, prefixos[i]) = n
             /\ PrimeiroDe(prefixos, c) <= PrimeiroDe(prefixos, prefixos[i])

\* C22: the category line of a normal report with findings names the
\* criterion prefix with the highest finding count and that count; of the
\* prefixes that tie for the highest count it names the one whose first
\* finding comes earliest.
C22_CategoriaMaisFrequente ==
    \A t \in Threads :
        Normal(t) /\ AchadosDoRelatorio(t) # <<>> =>
           \E linhas \in {LinhasDeCategoria(relatorio[t].recomendacoes_priorizadas)} :
              /\ Len(linhas) = 1
              /\ CategoriaCerta(Prefixos(AchadosDoRelatorio(t)),
                                linhas[1].categoria, linhas[1].n)

\* A normal report in which two prefixes tie for the highest count: the one
\* reported has its first finding before the first finding of the other.
C22_Witness ==
    \E t \in Threads :
        /\ Normal(t)
        /\ AchadosDoRelatorio(t) # <<>>
        /\ \E prefixos \in {Prefixos(AchadosDoRelatorio(t))} :
              \E c \in {LinhasDeCategoria(relatorio[t].recomendacoes_priorizadas)[1].categoria} :
                 \E i \in 1..Len(prefixos) :
                    /\ prefixos[i] # c
                    /\ ContagemDe(prefixos, prefixos[i]) = ContagemDe(prefixos, c)
                    /\ PrimeiroDe(prefixos, c) < PrimeiroDe(prefixos, prefixos[i])

\* The number of a local criterion key: the text before its first '-'.
NumeroDaChave(key) == Str(Strip(SplitPrimeiro(Chars(key), "-")))

\* The number a local-regulation reference names: the text between the
\* word ABNT and the first '-'; none when the reference is empty.
NumeroDaReferencia(referencia_abnt) ==
    LET base == Strip(SplitPrimeiro(Chars(referencia_abnt), "-"))
    IN  IF Len(base) > 5 /\ SubSeq(base, 1, 5) = <<"A", "B", "N", "T", " ">>
        THEN Str(Strip(SubSeq(base, 6, Len(base))))
        ELSE Str(base)

\* C23 as the claim states it: in a normal report the local conformance has
\* the four tracked criteria, and a criterion is false exactly when some
\* finding of the report carries a local-regulation reference of that
\* criterion's number.
C23_ConformidadeAbnt ==
    \A t \in Threads :
        Normal(t) =>
           /\ DOMAIN relatorio[t].conformidade_abnt =
                 {"5.1 - Alternativas em texto", "5.3 - Estrutura semantica",
                  "6.1 - Navegacao por teclado", "8.2 - Identificacao de campos"}
           /\ \A key \in DOMAIN relatorio[t].conformidade_abnt :
                 relatorio[t].conformidade_abnt[key] =
                    ~\E i \in 1..Len(AchadosDoRelatorio(t)) :
                        /\ AchadosDoRelatorio(t)[i].referencia_abnt # ""
                        /\ NumeroDaReferencia(AchadosDoRelatorio(t)[i].referencia_abnt)
                              = NumeroDaChave(key)

====
